---- MODULE Spec2Model ----
(***************************************************************************)
(* Model of citrea-analytics: the incremental log scanner (scanLogs) of    *)
(* the basic scanner (analyze.ts) and of the enhanced scanner              *)
(* (analyze-enhanced.ts), the retrying log fetcher (fetchLogsWithRetry)    *)
(* and the SQLite store they write (tables logs, swap_events, meta).       *)
(*                                                                         *)
(* One scan runs at a time.  A step of the model is the code between two   *)
(* awaits of scanLogs: the synchronous code that follows an await belongs  *)
(* to the action of the await that resumes it.                             *)
(***************************************************************************)
EXTENDS Integers, Sequences, FiniteSets

\* ------------------------------------------------------------------ bounds
\* Highest block height the node reports.
MaxHead == 3
\* Largest configured BATCH_SIZE explored (the configuration is read once).
MaxBatch == 2
\* Number of scanLogs invocations in one behaviour.
MaxScans == 3
\* Number of chain reorganisations in one behaviour.
MaxReorgs == 1
\* Number of throwing receipt, block or insert calls in one behaviour
\* (throwing getLogs calls are not limited).
MaxFaults == 1
\* Number of HTTP requests one server handles in one behaviour.
MaxRequests == 2

\* ------------------------------------------------------- program constants
MAX_RETRIES == 3
RETRY_DELAY_MS == 1000

\* null, as a value no text equals (a text is a sequence of digits).
NULL == << -1 >>
Variants == {"basic", "enhanced"}

\* ------------------------------------------------------------- conversions
\* bigint.toString(): the decimal digits, most significant first.
RECURSIVE ToString(_)
ToString(n) == IF n < 10 THEN <<n>> ELSE Append(ToString(n \div 10), n % 10)

\* BigInt(text) of a decimal text; BigInt("") is 0n.
RECURSIVE BigInt(_)
BigInt(s) ==
    IF Len(s) = 0 THEN 0
    ELSE 10 * BigInt(SubSeq(s, 1, Len(s) - 1)) + s[Len(s)]

\* Variant of Truthy: the text is tested as the number it denotes, so that a
\* stored "0" is falsy.
TruthyAsNumber(v) == v # NULL /\ v # <<>> /\ BigInt(v) # 0

\* JavaScript truthiness of a string-or-null value.
Truthy(v) == v # NULL /\ v # <<>>

\* String.prototype.toLowerCase on the addresses the chain uses.
ToLowerCase(a) ==
    CASE a = "0xAB" -> "0xab"
      [] a = "0xCd" -> "0xcd"
      [] OTHER -> a

\* ------------------------------------------------------------------- chain
\* The contract's logs of block b, in log-index order.  One transaction per
\* block; the transaction of a block b with b % 4 = 1 emits two Swap logs, the
\* one of a block with b % 4 = 2 emits a Transfer log and a log that is no
\* event of the router ABI.
LogsOfBlock(b) ==
    CASE b % 4 = 0 ->
           << [transactionHash |-> b, blockNumber |-> b, event |-> "Swap", amount_in |-> 1] >>
      [] b % 4 = 1 ->
           << [transactionHash |-> b, blockNumber |-> b, event |-> "Swap", amount_in |-> 1],
              [transactionHash |-> b, blockNumber |-> b, event |-> "Swap", amount_in |-> 2] >>
      [] b % 4 = 2 ->
           << [transactionHash |-> b, blockNumber |-> b, event |-> "Transfer", amount_in |-> 0],
              [transactionHash |-> b, blockNumber |-> b, event |-> "Unknown", amount_in |-> 0] >>
      [] OTHER -> << >>

\* client.getLogs({address, fromBlock, toBlock}): inclusive bounds.
RECURSIVE GetLogs(_, _)
GetLogs(fromBlock, toBlock) ==
    IF fromBlock > toBlock THEN << >>
    ELSE GetLogs(fromBlock, toBlock - 1) \o LogsOfBlock(toBlock)

\* The contract scanned by default, and another contract with logs of its own.
DEFAULT_CONTRACT == "0x72B1"
OtherContract == "0xB"
Addresses == {DEFAULT_CONTRACT, OtherContract}

\* The logs the other contract emitted in block b: one Swap per block, in a
\* transaction that holds no log of the default contract.
LogsOfOtherContract(b) ==
    << [transactionHash |-> 10 + b, blockNumber |-> b, event |-> "Swap", amount_in |-> 1] >>

\* client.getLogs({address, fromBlock, toBlock}) for either contract.
RECURSIVE GetLogsAt(_, _, _)
GetLogsAt(addr, fromBlock, toBlock) ==
    IF addr = DEFAULT_CONTRACT THEN GetLogs(fromBlock, toBlock)
    ELSE IF fromBlock > toBlock THEN << >>
    ELSE GetLogsAt(addr, fromBlock, toBlock - 1) \o LogsOfOtherContract(toBlock)

\* client.getTransactionReceipt({hash}).
Receipt(hash) ==
    [from |-> IF hash % 2 = 0 THEN "0xAB" ELSE "0xCd", gasUsed |-> 21000 * (1 + (hash % 2))]

\* client.getBlock({blockNumber}).timestamp; a reorganisation changes it.
BlockTimestamp(b, e) == 1000 + 10 * b + e

\* decodeEventLog with the router ABI: the event name, or "throws".
DecodeEventLog(log) == IF log.event \in {"Swap", "Transfer"} THEN log.event ELSE "throws"

\* Variant of DecodeOutcome: the exception of decodeEventLog is not caught.
DecodeOutcomeUncaught(log) ==
    CASE DecodeEventLog(log) = "Swap" -> "swap"
      [] DecodeEventLog(log) = "throws" -> "raise"
      [] OTHER -> "none"

\* The try block around decodeEventLog in the enhanced callback: a Swap is
\* inserted, another event name is skipped, and an exception of
\* decodeEventLog is caught by the empty catch block.
DecodeOutcome(log) == IF DecodeEventLog(log) = "Swap" THEN "swap" ELSE "none"

\* ------------------------------------------------------------------- store
\* Variant of InsertOrIgnore: INSERT OR REPLACE, the row of an existing key is
\* overwritten.
InsertOrReplace(table, row) ==
    [k \in DOMAIN table \cup {row.tx_hash} |-> IF k = row.tx_hash THEN row ELSE table[k]]

\* Variant of InsertOrIgnore: a plain INSERT into a table whose key is a fresh
\* row id instead of tx_hash.
InsertPlain(table, row) ==
    [k \in DOMAIN table \cup {1000 + Cardinality(DOMAIN table)} |->
        IF k \in DOMAIN table THEN table[k] ELSE row]

\* INSERT OR IGNORE INTO <table> ... : a row whose tx_hash is already a key
\* of the table is skipped, any other row is added.
InsertOrIgnore(table, row) ==
    IF row.tx_hash \in DOMAIN table THEN table
    ELSE [k \in DOMAIN table \cup {row.tx_hash} |->
            IF k = row.tx_hash THEN row ELSE table[k]]

\* The loop of insertMany: insertStmt.run for each row in order.
RECURSIVE InsertAll(_, _)
InsertAll(table, rows) ==
    IF Len(rows) = 0 THEN table
    ELSE InsertAll(InsertOrIgnore(table, Head(rows)), Tail(rows))

\* db.transaction(fn)(rows): failAt = 0 when no insert throws; otherwise
\* the failAt-th insert throws, the transaction is rolled back and the
\* exception propagates.
Transaction(table, rows, failAt) ==
    IF failAt = 0
    THEN [ok |-> TRUE, table |-> InsertAll(table, rows)]
    ELSE [ok |-> FALSE, table |-> table]

\* getMeta(db, key): the stored text, or null.
GetMeta(m, key) == IF key \in DOMAIN m THEN m[key] ELSE NULL

\* setMeta(db, key, value): INSERT OR REPLACE.
SetMeta(m, key, value) ==
    [k \in DOMAIN m \cup {key} |-> IF k = key THEN value ELSE m[k]]

\* ------------------------------------------------------- scanLogs, pieces
\* Variant of ResolveStart: the stored checkpoint is not consulted.
ResolveStartFromGenesis(inc, m) == 0

\* Variant of ResolveStart: resumes at the checkpoint itself.
ResolveStartAtCheckpoint(inc, m) ==
    IF inc /\ Truthy(GetMeta(m, "lastScannedBlock"))
    THEN BigInt(GetMeta(m, "lastScannedBlock"))
    ELSE 0

\* The start block: 0n, or BigInt(lastScanned) + 1n for an incremental scan
\* that finds a truthy lastScannedBlock.
ResolveStart(inc, m) ==
    IF inc /\ Truthy(GetMeta(m, "lastScannedBlock"))
    THEN BigInt(GetMeta(m, "lastScannedBlock")) + 1
    ELSE 0

\* Variant of EndBlockOf: a full window ends at cur + size.
EndBlockOfOneMore(cur, latest, size) ==
    IF cur + size > latest THEN latest ELSE cur + size

\* The window's last block.
EndBlockOf(cur, latest, size) ==
    IF cur + size > latest THEN latest ELSE cur + size - 1

\* Variant of RetryDecision: retries once more.
RetryDecisionOneMore(r) == IF r >= 0 THEN "retry" ELSE "throw"

\* The catch block of fetchLogsWithRetry: retry while retries > 0.
RetryDecision(r) == IF r > 0 THEN "retry" ELSE "throw"

\* The delay awaited before the retry made with `r` retries left.
RetryDelay(r) == RETRY_DELAY_MS * (MAX_RETRIES - r + 1)

\* The row the basic scanner derives from a log, its receipt and its block.
LogRow(log, e) ==
    [tx_hash |-> log.transactionHash,
     block_number |-> log.blockNumber,
     from_address |-> ToLowerCase(Receipt(log.transactionHash).from),
     gas_used |-> ToString(Receipt(log.transactionHash).gasUsed),
     timestamp |-> BlockTimestamp(log.blockNumber, e)]

\* The swap_events row the enhanced scanner derives from a decoded Swap log.
SwapRow(log, e) ==
    [tx_hash |-> log.transactionHash,
     block_number |-> log.blockNumber,
     sender |-> ToLowerCase(Receipt(log.transactionHash).from),
     amount_in |-> ToString(log.amount_in),
     timestamp |-> BlockTimestamp(log.blockNumber, e)]

\* Variant of FilterValid: only the first log that has a row is kept.
FilterValidFirstOnly(data) ==
    LET ks == {i \in DOMAIN data : data[i].state # "null"} IN
    IF ks = {} THEN << >>
    ELSE <<data[CHOOSE i \in ks : \A j \in ks : i <= j].row>>

\* logData.filter((d) => d !== null)
RECURSIVE FilterValid(_)
FilterValid(data) ==
    IF Len(data) = 0 THEN << >>
    ELSE IF Head(data).state = "null" THEN FilterValid(Tail(data))
         ELSE <<Head(data).row>> \o FilterValid(Tail(data))

\* Whether the progress computation of a window throws: the basic scanner
\* tests denom === 0n, the enhanced scanner divides by latestBlock - startBlock.
ProgressThrows(v, start, latest) == v = "enhanced" /\ latest - start = 0

\* Variant of CheckpointText: stores the head as it is when the loop ends.
CheckpointTextOfHead(latest, headNow) == ToString(headNow)

\* The text stored under lastScannedBlock when the loop has ended.
CheckpointText(latest, headNow) == ToString(latest)

\* ----------------------------------------------------------------- metrics
\* Variant of SumOver: SUM(DISTINCT ...), a value that occurs in several rows
\* is added once.
RECURSIVE SumOverDistinct(_, _, _)
SumOverDistinct(table, ks, col) ==
    IF ks = {} THEN 0
    ELSE LET k == CHOOSE x \in ks : TRUE
         IN  BigInt(table[k][col])
               + SumOverDistinct(table, {j \in ks : table[j][col] # table[k][col]}, col)

\* The sum of the numbers the texts of column col denote, over the rows of
\* keys ks.
RECURSIVE SumOver(_, _, _)
SumOver(table, ks, col) ==
    IF ks = {} THEN 0
    ELSE LET k == CHOOSE x \in ks : TRUE
         IN  BigInt(table[k][col]) + SumOver(table, ks \ {k}, col)

\* SELECT SUM(CAST(col AS REAL)) FROM table: SQL NULL over no rows.
SqlSum(table, col) ==
    [isNull |-> DOMAIN table = {}, value |-> SumOver(table, DOMAIN table, col)]

\* Variant of TotalGas: toFixed is called on the column value itself, which
\* is a TypeError when the value is null.
TotalGasNoCoercion(sum) == [threw |-> sum.isNull, wei |-> sum.value]

\* totalGasRow.total / 1e18: the division coerces null to 0 and throws
\* nothing.
TotalGas(sum) == [threw |-> FALSE, wei |-> IF sum.isNull THEN 0 ELSE sum.value]

\* (wei / 1e18).toFixed(4): the quotient rounded to four decimals, as its
\* whole part and its four fraction digits.
ToFixed4(wei) ==
    LET units == (((wei \div 1000000000) \div 10000) + 5) \div 10
    IN  [whole |-> units \div 10000, frac |-> units % 10000]

\* strftime('%Y-%m-%d', timestamp, 'unixepoch'): the UTC day of a timestamp,
\* as the number of days since the epoch.
Day(timestamp) == timestamp \div 86400

\* LIMIT 10 of the topCallers query.
TOP_CALLERS_LIMIT == 10

\* Variant of Take: the query has no LIMIT.
TakeAll(rows, n) == rows

\* The first n elements of a result.
Take(rows, n) == SubSeq(rows, 1, IF Len(rows) < n THEN Len(rows) ELSE n)

\* ORDER BY count DESC over a set of groups.  SQL leaves the order of groups
\* with equal counts open; here the group with the smallest first row comes
\* first.
RECURSIVE OrderByCountDesc(_)
OrderByCountDesc(groups) ==
    IF groups = {} THEN << >>
    ELSE LET top == {g \in groups : \A h \in groups : g.count >= h.count}
             g == CHOOSE x \in top : \A y \in top : x.first <= y.first
         IN  <<[addr |-> g.addr, count |-> g.count]>> \o OrderByCountDesc(groups \ {g})

\* ORDER BY day DESC over a set of groups, which have distinct days.  A day
\* is the number of the UTC calendar day; its text '%Y-%m-%d' orders the same
\* way.
RECURSIVE OrderByDayDesc(_)
OrderByDayDesc(groups) ==
    IF groups = {} THEN << >>
    ELSE LET g == CHOOSE x \in groups : \A y \in groups : x.day >= y.day
         IN  <<g>> \o OrderByDayDesc(groups \ {g})

\* SELECT from_address as addr, COUNT(*) as count FROM logs GROUP BY
\* from_address: the groups, each with the key of its first row.
TopCallerGroups(lt) ==
    {[addr |-> a, count |-> Cardinality({k \in DOMAIN lt : lt[k].from_address = a}),
      first |-> CHOOSE k \in DOMAIN lt :
                   /\ lt[k].from_address = a
                   /\ \A j \in DOMAIN lt : lt[j].from_address = a => k <= j] :
        a \in {lt[k].from_address : k \in DOMAIN lt}}

\* The topCallers query: ... GROUP BY from_address ORDER BY count DESC
\* LIMIT 10, as the array .all() returns.
TopCallers(lt) == Take(OrderByCountDesc(TopCallerGroups(lt)), TOP_CALLERS_LIMIT)

\* SELECT day, COUNT(*) as tx, COUNT(DISTINCT from_address) as uniqueUsers
\* FROM logs GROUP BY day: the groups.
DailyGroups(lt) ==
    {[day |-> d,
      tx |-> Cardinality({k \in DOMAIN lt : Day(lt[k].timestamp) = d}),
      uniqueUsers |-> Cardinality({lt[k].from_address :
                                     k \in {j \in DOMAIN lt : Day(lt[j].timestamp) = d}})] :
        d \in {Day(lt[k].timestamp) : k \in DOMAIN lt}}

\* The dailyStats query of the basic scanner: ... GROUP BY day ORDER BY day
\* DESC.
DailyStats(lt) == OrderByDayDesc(DailyGroups(lt))

\* The groups of the enhanced dailyStats: logs LEFT JOIN swap_events ON
\* tx_hash, with COUNT(DISTINCT l.tx_hash) as tx and COUNT(DISTINCT s.tx_hash)
\* as swaps.
EnhancedDailyGroups(lt, st) ==
    {[day |-> d,
      tx |-> Cardinality({lt[k].tx_hash : k \in {j \in DOMAIN lt : Day(lt[j].timestamp) = d}}),
      uniqueUsers |-> Cardinality({lt[k].from_address :
                                     k \in {j \in DOMAIN lt : Day(lt[j].timestamp) = d}}),
      swaps |-> Cardinality({st[j].tx_hash :
                               j \in {i \in DOMAIN st :
                                        \E k \in DOMAIN lt :
                                           /\ Day(lt[k].timestamp) = d
                                           /\ lt[k].tx_hash = st[i].tx_hash}})] :
        d \in {Day(lt[k].timestamp) : k \in DOMAIN lt}}

\* The dailyStats query of the enhanced scanner, ORDER BY day DESC.
EnhancedDailyStats(lt, st) == OrderByDayDesc(EnhancedDailyGroups(lt, st))

\* volumeByToken.inbound: SUM(CAST(amount_in AS REAL)) and COUNT(*) per
\* token_in.  The swaps of the chain have one input token, so there is one
\* group when swap_events has rows and none otherwise.
VolumeInByToken(st) ==
    IF DOMAIN st = {} THEN {}
    ELSE {[totalAmount |-> SqlSum(st, "amount_in").value,
           swapCount |-> Cardinality(DOMAIN st)]}

\* calculateMetrics(db): whether it threw, and the Metrics it returns.
CalculateMetrics(lt) ==
    LET gas == TotalGas(SqlSum(lt, "gas_used")) IN
    [threw |-> gas.threw,
     metrics |-> [uniqueUsers |-> Cardinality({lt[k].from_address : k \in DOMAIN lt}),
                  uniqueTxCount |-> Cardinality(DOMAIN lt),
                  totalGas_cBTC |-> ToFixed4(gas.wei),
                  topCallers |-> TopCallers(lt),
                  dailyStats |-> DailyStats(lt)]]

\* calculateEnhancedMetrics(db).
CalculateEnhancedMetrics(lt, st) ==
    LET gas == TotalGas(SqlSum(lt, "gas_used")) IN
    [threw |-> gas.threw,
     metrics |-> [uniqueUsers |-> Cardinality({lt[k].from_address : k \in DOMAIN lt}),
                  uniqueTxCount |-> Cardinality(DOMAIN lt),
                  totalGas_cBTC |-> ToFixed4(gas.wei),
                  totalSwaps |-> Cardinality(DOMAIN st),
                  volumeIn |-> VolumeInByToken(st),
                  topCallers |-> TopCallers(lt),
                  dailyStats |-> EnhancedDailyStats(lt, st)]]

\* The metrics function of the installed scanner.
MetricsOf(v, lt, st) ==
    IF v = "basic" THEN CalculateMetrics(lt) ELSE CalculateEnhancedMetrics(lt, st)

\* -------------------------------------------------------------- HTTP handler
Methods == {"GET", "POST"}
Urls == {"/metrics", "/", "/metrics?x=1"}

\* Variant of Route: the method is not looked at.
RouteAnyMethod(method, url) == url = "/metrics"

\* req.url === "/metrics" && req.method === "GET"
Route(method, url) == url = "/metrics" /\ method = "GET"

\* Variant of Handle: calculateMetrics is called outside any try block, so
\* its exception leaves the handler and ends the process.
HandleUncaught(method, url, m) ==
    IF Route(method, url)
    THEN IF m.threw
         THEN [crash |-> TRUE, status |-> 0, error |-> "", body |-> << >>]
         ELSE [crash |-> FALSE, status |-> 200, error |-> "", body |-> <<m.metrics>>]
    ELSE [crash |-> FALSE, status |-> 404, error |-> "Not found", body |-> << >>]

\* The request listener of createServer, given the result m of the metrics
\* function: the status written, the error text of an {error} body, and the
\* metrics of a metrics body.
Handle(method, url, m) ==
    IF Route(method, url)
    THEN IF m.threw
         THEN [crash |-> FALSE, status |-> 500, error |-> "Failed to calculate metrics",
               body |-> << >>]
         ELSE [crash |-> FALSE, status |-> 200, error |-> "", body |-> <<m.metrics>>]
    ELSE [crash |-> FALSE, status |-> 404, error |-> "Not found", body |-> << >>]

\* ---------------------------------------------------------------- parseArgs
\* What parseArgs starts from.  export is absent then: the empty text stands
\* for it, which no token can set because a value must be truthy.
DefaultArgs == [address |-> DEFAULT_CONTRACT, incremental |-> FALSE, serve |-> FALSE,
                export |-> ""]

\* String.prototype.toLowerCase on the tokens of the command lines.
TokenToLowerCase(t) ==
    CASE t = "TRUE" -> "true"
      [] OTHER -> t

\* The for loop of parseArgs from index i (1-based) with the options parsed
\* so far.  nextArg is args[i + 1], undefined past the end and falsy when it
\* is the empty text.
RECURSIVE ParseFrom(_, _, _)
ParseFrom(tokens, i, parsed) ==
    IF i > Len(tokens) THEN parsed
    ELSE LET arg == tokens[i]
             hasNext == i + 1 <= Len(tokens) /\ tokens[i + 1] # ""
         IN  IF arg = "--address" /\ hasNext
             THEN ParseFrom(tokens, i + 2, [parsed EXCEPT !.address = tokens[i + 1]])
             ELSE IF arg = "--incremental" /\ hasNext
             THEN ParseFrom(tokens, i + 2,
                     [parsed EXCEPT !.incremental = TokenToLowerCase(tokens[i + 1]) = "true"])
             ELSE IF arg = "--serve" /\ hasNext
             THEN ParseFrom(tokens, i + 2,
                     [parsed EXCEPT !.serve = TokenToLowerCase(tokens[i + 1]) = "true"])
             ELSE IF arg = "--export" /\ hasNext
             THEN ParseFrom(tokens, i + 2, [parsed EXCEPT !.export = tokens[i + 1]])
             ELSE ParseFrom(tokens, i + 1, parsed)

\* parseArgs() for process.argv.slice(2) = tokens.
ParseArgs(tokens) == ParseFrom(tokens, 1, DefaultArgs)

\* ------------------------------------------------------------------- state
VARIABLES
    head,          \* the chain head the node reports
    epoch,         \* number of reorganisations so far
    batchSize,     \* BATCH_SIZE, read from the environment at start-up
    logsTable,     \* table logs: tx_hash -> row
    swapTable,     \* table swap_events: tx_hash -> row
    meta,          \* table meta: key -> text
    pc,            \* position of the scan
    variant,       \* which scanner this installation runs: "basic" or "enhanced"
    incremental,   \* scanLogs' parameter
    latestBlock,   \* scanLogs' local: the head read at scan start
    startBlock,    \* scanLogs' local
    currentBlock,  \* scanLogs' local
    endBlock,      \* scanLogs' local: the current window's last block
    retries,       \* fetchLogsWithRetry's parameter of the call in progress
    logs,          \* the logs getLogs returned for the current window
    logData,       \* per log: the state of its enrichment callback
    totalLogs,     \* scanLogs' local
    totalSwaps,    \* scanLogs' local (enhanced)
    outcome,       \* how the scan ended, or why it threw
    atStart,       \* the store when the scan began
    atWindow,      \* the store when the current window began
    windows,       \* the ranges passed to fetchLogsWithRetry by this scan
    attempts,      \* getLogs calls made for the current range
    delays,        \* delays awaited for the current range
    rpcCalls,      \* receipt and block calls issued by this scan
    metaWrites,    \* setMeta calls made by this scan
    insertFailed,  \* an insert threw during the current window
    enrichFailed,  \* a receipt or block call threw during this scan
    scansRun,      \* scans started so far
    faults,        \* receipt, block and insert calls that threw so far
    prevScan,      \* how the previous scan began and ended
    mainPc,        \* position of main: "notStarted", "scanning", "serving", "exited"
    args,          \* parseArgs' result: the options serve and export
    mainTrace,     \* what main has done so far, in order
    exitCode,      \* the status the process ended with, -1 while it has not ended
    listening,     \* the HTTP server accepts requests
    requests,      \* the HTTP exchanges handled so far, in order
    mainError,     \* what threw inside main's try block: "none", "scan", "metrics", "export"
    argv,          \* process.argv.slice(2): the argument tokens
    cliPc,         \* "idle", "parsed", "added" (a token was added), "reparsed"
    parsedArgs,    \* what parseArgs returned for argv
    basisArgs,     \* what parseArgs returned before the token was added
    covered,       \* per block, the number of getLogs results that held it
    otherRuns,     \* scans run by a second process so far
    address,       \* args.address: the contract scanLogs is called for
    requested      \* the <<address, block>> pairs getLogs has been asked for

chainVars == <<head, epoch>>
storeVars == <<logsTable, swapTable, meta>>
paramVars == <<batchSize, variant, incremental, latestBlock, startBlock, atStart, scansRun, prevScan>>
loopVars == <<pc, outcome, currentBlock, endBlock, retries, attempts, delays, windows, metaWrites,
              atWindow>>
windowVars == <<logs, logData, totalLogs, totalSwaps, rpcCalls, insertFailed, enrichFailed>>
procVars == <<mainPc, args, mainTrace, exitCode, listening, requests, mainError>>
cliVars == <<argv, cliPc, parsedArgs, basisArgs>>
auxVars == <<cliVars, covered, otherRuns, address, requested>>
vars == <<chainVars, storeVars, paramVars, loopVars, windowVars, faults, procVars, auxVars>>

EmptyTable == [k \in {} |-> 0]
Store == [logs |-> logsTable, swaps |-> swapTable, meta |-> meta]
NoScan == [ran |-> FALSE]

\* No process has been started.
NoProcess ==
    /\ mainPc = "notStarted"
    /\ args = [serve |-> FALSE, export |-> FALSE]
    /\ mainTrace = << >>
    /\ exitCode = -1
    /\ listening = FALSE
    /\ requests = << >>
    /\ mainError = "none"

\* No command line has been parsed, no window has been fetched and no second
\* process has run.
NoAux ==
    /\ argv = << >>
    /\ cliPc = "idle"
    /\ parsedArgs = DefaultArgs
    /\ basisArgs = DefaultArgs
    /\ covered = [b \in 0..MaxHead |-> 0]
    /\ otherRuns = 0
    /\ address = DEFAULT_CONTRACT
    /\ requested = {}

\* No scan has run in this process.
IdleScanner ==
    /\ pc = "Idle"
    /\ incremental = FALSE
    /\ latestBlock = 0
    /\ startBlock = 0
    /\ currentBlock = 0
    /\ endBlock = 0
    /\ retries = MAX_RETRIES
    /\ logs = << >>
    /\ logData = << >>
    /\ totalLogs = 0
    /\ totalSwaps = 0
    /\ outcome = "none"
    /\ atStart = [logs |-> EmptyTable, swaps |-> EmptyTable, meta |-> EmptyTable]
    /\ atWindow = [logs |-> EmptyTable, swaps |-> EmptyTable]
    /\ windows = << >>
    /\ attempts = 0
    /\ delays = << >>
    /\ rpcCalls = 0
    /\ metaWrites = 0
    /\ insertFailed = FALSE
    /\ enrichFailed = FALSE
    /\ scansRun = 0
    /\ faults = 0
    /\ prevScan = NoScan

\* The scanner before its first scan on a new database, with the window size
\* drawn from sizes.
InitScanWith(sizes) ==
    /\ head \in 0..MaxHead
    /\ epoch = 0
    /\ batchSize \in sizes
    /\ variant \in Variants
    /\ logsTable = EmptyTable
    /\ swapTable = EmptyTable
    /\ meta = EmptyTable
    /\ IdleScanner

Init ==
    /\ InitScanWith(1..MaxBatch)
    /\ NoProcess
    /\ NoAux

\* ------------------------------------------------------ scanLogs, control
Pending(data) == {i \in DOMAIN data : data[i].state = "pending"}

\* `throw error`: the scan ends without reaching setMeta.
Fail(cause) ==
    /\ pc' = "Failed"
    /\ outcome' = cause
    /\ UNCHANGED <<meta, currentBlock, endBlock, retries, attempts, delays, windows,
                   metaWrites, atWindow>>

\* Top of the while loop for the window starting at cur: compute endBlock and
\* call fetchLogsWithRetry, whose first getLogs call is then in flight.
BeginWindow(cur, latest, wins, lt, st) ==
    /\ pc' = "Fetching"
    /\ outcome' = "none"
    /\ currentBlock' = cur
    /\ endBlock' = EndBlockOf(cur, latest, batchSize)
    /\ retries' = MAX_RETRIES
    /\ attempts' = 1
    /\ delays' = << >>
    /\ windows' = Append(wins, <<cur, EndBlockOf(cur, latest, batchSize)>>)
    /\ atWindow' = [logs |-> lt, swaps |-> st]

\* Variant of FinishWindow: setMeta is called at the end of every window.
FinishWindowCheckpointing(lt, st) ==
    IF ProgressThrows(variant, startBlock, latestBlock)
    THEN Fail("progress")
    ELSE /\ meta' = SetMeta(meta, "lastScannedBlock", ToString(endBlock))
         /\ metaWrites' = metaWrites + 1
         /\ IF endBlock + 1 <= latestBlock
            THEN BeginWindow(endBlock + 1, latestBlock, windows, lt, st)
            ELSE /\ pc' = "Done"
                 /\ outcome' = "complete"
                 /\ currentBlock' = endBlock + 1
                 /\ UNCHANGED <<endBlock, retries, attempts, delays, windows, atWindow>>

\* The end of a window whose rows are stored (tables lt, st): progress report,
\* currentBlock = endBlock + 1, the loop test and, once the loop has ended,
\* setMeta and return.
FinishWindow(lt, st) ==
    IF ProgressThrows(variant, startBlock, latestBlock)
    THEN Fail("progress")
    ELSE IF endBlock + 1 <= latestBlock
    THEN /\ BeginWindow(endBlock + 1, latestBlock, windows, lt, st)
         /\ UNCHANGED <<meta, metaWrites>>
    ELSE /\ meta' = SetMeta(meta, "lastScannedBlock", CheckpointText(latestBlock, head))
         /\ metaWrites' = metaWrites + 1
         /\ pc' = "Done"
         /\ outcome' = "complete"
         /\ currentBlock' = endBlock + 1
         /\ UNCHANGED <<endBlock, retries, attempts, delays, windows, atWindow>>

\* What StartScan records about the scan that ran before it.
Previous ==
    IF pc = "Idle" THEN NoScan
    ELSE [ran |-> TRUE, pc |-> pc, incremental |-> incremental, startBlock |-> startBlock]

\* A new invocation of scanLogs: getBlockNumber answers, the start block is
\* resolved, and the scan either reports "already up to date" or enters the loop.
StartScan(inc) ==
    /\ pc \in {"Idle", "Done", "Failed"}
    /\ scansRun < MaxScans
    /\ incremental' = inc
    /\ latestBlock' = head
    /\ startBlock' = ResolveStart(inc, meta)
    /\ atStart' = Store
    /\ scansRun' = scansRun + 1
    /\ prevScan' = Previous
    /\ logs' = << >>
    /\ logData' = << >>
    /\ totalLogs' = 0
    /\ totalSwaps' = 0
    /\ rpcCalls' = 0
    /\ insertFailed' = FALSE
    /\ enrichFailed' = FALSE
    /\ metaWrites' = 0
    /\ IF ResolveStart(inc, meta) > head
       THEN /\ pc' = "Done"
            /\ outcome' = "uptodate"
            /\ currentBlock' = ResolveStart(inc, meta)
            /\ endBlock' = 0
            /\ retries' = MAX_RETRIES
            /\ attempts' = 0
            /\ delays' = << >>
            /\ windows' = << >>
            /\ atWindow' = [logs |-> logsTable, swaps |-> swapTable]
       ELSE BeginWindow(ResolveStart(inc, meta), head, << >>, logsTable, swapTable)
    /\ UNCHANGED <<chainVars, storeVars, batchSize, variant, faults>>
    /\ UNCHANGED procVars

\* A new invocation of scanLogs whose getBlockNumber call throws.
StartScanFails(inc) ==
    /\ pc \in {"Idle", "Done", "Failed"}
    /\ scansRun < MaxScans
    /\ incremental' = inc
    /\ latestBlock' = 0
    /\ startBlock' = 0
    /\ atStart' = Store
    /\ scansRun' = scansRun + 1
    /\ prevScan' = Previous
    /\ logs' = << >>
    /\ logData' = << >>
    /\ totalLogs' = 0
    /\ totalSwaps' = 0
    /\ rpcCalls' = 0
    /\ insertFailed' = FALSE
    /\ enrichFailed' = FALSE
    /\ metaWrites' = 0
    /\ pc' = "Failed"
    /\ outcome' = "getBlockNumber"
    /\ currentBlock' = 0
    /\ endBlock' = 0
    /\ retries' = MAX_RETRIES
    /\ attempts' = 0
    /\ delays' = << >>
    /\ windows' = << >>
    /\ atWindow' = [logs |-> logsTable, swaps |-> swapTable]
    /\ UNCHANGED <<chainVars, storeVars, batchSize, variant, faults>>
    /\ UNCHANGED procVars

\* Variant of GetLogsReturns: the callbacks are started but Promise.all is
\* not awaited, so the loop goes on to the next window at once.
GetLogsReturnsNoAwait ==
    /\ pc = "Fetching"
    /\ LET ls == GetLogs(currentBlock, endBlock) IN
       /\ FinishWindow(logsTable, swapTable)
       /\ logs' = ls
       /\ logData' = [i \in 1..Len(ls) |-> [state |-> "pending"]]
       /\ rpcCalls' = rpcCalls + 2 * Len(ls)
    /\ UNCHANGED <<chainVars, logsTable, swapTable, paramVars, totalLogs, totalSwaps,
                   insertFailed, enrichFailed, faults>>
    /\ UNCHANGED procVars

\* fetchLogsWithRetry: the getLogs call in flight answers.  An empty answer
\* ends the window at once; otherwise one enrichment callback per log starts,
\* each issuing its receipt and block calls.
GetLogsReturns ==
    /\ pc = "Fetching"
    /\ LET ls == GetLogsAt(address, currentBlock, endBlock) IN
       IF Len(ls) = 0
       THEN /\ FinishWindow(logsTable, swapTable)
            /\ UNCHANGED <<logs, logData, rpcCalls>>
       ELSE /\ pc' = "Enriching"
            /\ logs' = ls
            /\ logData' = [i \in 1..Len(ls) |-> [state |-> "pending"]]
            /\ rpcCalls' = rpcCalls + 2 * Len(ls)
            /\ retries' = MAX_RETRIES
            /\ attempts' = 0
            /\ delays' = << >>
            /\ UNCHANGED <<meta, outcome, currentBlock, endBlock, windows, metaWrites,
                           atWindow>>
    /\ UNCHANGED <<chainVars, logsTable, swapTable, paramVars, totalLogs, totalSwaps,
                   insertFailed, enrichFailed, faults>>
    /\ UNCHANGED procVars

\* fetchLogsWithRetry: the getLogs call in flight throws.  With retries left
\* the delay is awaited and getLogs is called again; otherwise the error is
\* rethrown to scanLogs, which rethrows it.
GetLogsThrows ==
    /\ pc = "Fetching"
    /\ IF RetryDecision(retries) = "retry"
       THEN /\ retries' = retries - 1
            /\ delays' = Append(delays, RetryDelay(retries))
            /\ attempts' = attempts + 1
            /\ UNCHANGED <<pc, outcome, meta, currentBlock, endBlock, windows, metaWrites,
                           atWindow>>
       ELSE Fail("getLogs")
    /\ UNCHANGED <<chainVars, logsTable, swapTable, paramVars, windowVars, faults>>
    /\ UNCHANGED procVars

\* ---------------------------------------------------- enrichment callbacks
\* Basic scanner: the callback of log i ends.  Its receipt and block calls
\* both answered (ok) and it returns a row, or one of them threw and it
\* returns null.  When it is the last callback of the window, Promise.all
\* resolves and the code up to the next await runs: filter, insertMany in one
\* transaction (whose failAt-th insert may throw), and the end of the window.
BasicCallback(i, ok) ==
    /\ pc = "Enriching"
    /\ variant = "basic"
    /\ i \in Pending(logData)
    /\ ~ok => faults < MaxFaults
    /\ LET d == IF ok THEN [state |-> "row", row |-> LogRow(logs[i], epoch)]
                 ELSE [state |-> "null"]
           data == [logData EXCEPT ![i] = d]
           valid == FilterValid(data)
           thrown == IF ok THEN 0 ELSE 1
       IN  /\ enrichFailed' = (enrichFailed \/ ~ok)
           /\ IF Pending(data) # {}
              THEN /\ logData' = data
                   /\ faults' = faults + thrown
                   /\ UNCHANGED <<logs, logsTable, totalLogs, insertFailed, loopVars, meta>>
              ELSE IF Len(valid) = 0
              THEN /\ logs' = << >>
                   /\ logData' = << >>
                   /\ faults' = faults + thrown
                   /\ FinishWindow(logsTable, swapTable)
                   /\ UNCHANGED <<logsTable, totalLogs, insertFailed>>
              ELSE \E failAt \in 0..Len(valid) :
                     LET t == Transaction(logsTable, valid, failAt) IN
                     /\ ~t.ok => faults + thrown < MaxFaults
                     /\ faults' = faults + thrown + (IF t.ok THEN 0 ELSE 1)
                     /\ logsTable' = t.table
                     /\ IF t.ok
                        THEN /\ totalLogs' = totalLogs + Len(valid)
                             /\ logs' = << >>
                             /\ logData' = << >>
                             /\ FinishWindow(t.table, swapTable)
                             /\ UNCHANGED insertFailed
                        ELSE /\ insertFailed' = TRUE
                             /\ logData' = data
                             /\ Fail("insert")
                             /\ UNCHANGED <<logs, totalLogs>>
    /\ UNCHANGED <<chainVars, swapTable, paramVars, totalSwaps, rpcCalls>>
    /\ UNCHANGED procVars

\* What can happen in the enhanced scanner's callback of a log.
EnhancedResults == {"ok", "enrichThrows", "insertLogThrows", "insertSwapThrows"}

\* Enhanced scanner: the callback of log i resumes after its receipt and
\* block calls.  A throwing call, or a throwing insertLog.run, rejects the
\* window's Promise.all, so scanLogs throws and main ends the process with the
\* other callbacks still pending.  Otherwise the logs row is inserted, the log
\* is decoded and a Swap is inserted, a throwing insertSwap.run being caught
\* by the catch block around the decoding.  When it is the last callback,
\* the code up to the next await runs as well.
EnhancedCallback(i, r) ==
    /\ pc = "Enriching"
    /\ variant = "enhanced"
    /\ i \in Pending(logData)
    /\ r = "insertSwapThrows" => DecodeOutcome(logs[i]) = "swap"
    /\ r # "ok" => faults < MaxFaults
    /\ faults' = faults + (IF r = "ok" THEN 0 ELSE 1)
    /\ IF r \in {"enrichThrows", "insertLogThrows"}
       THEN /\ enrichFailed' = (enrichFailed \/ r = "enrichThrows")
            /\ insertFailed' = (insertFailed \/ r = "insertLogThrows")
            /\ logData' = [logData EXCEPT ![i] = [state |-> "null"]]
            /\ Fail(IF r = "enrichThrows" THEN "enrich" ELSE "insert")
            /\ UNCHANGED <<logs, logsTable, swapTable, totalLogs, totalSwaps>>
       ELSE IF DecodeOutcome(logs[i]) = "raise"
       THEN /\ logsTable' = InsertOrIgnore(logsTable, LogRow(logs[i], epoch))
            /\ logData' = [logData EXCEPT ![i] = [state |-> "null"]]
            /\ Fail("decode")
            /\ UNCHANGED <<logs, swapTable, totalLogs, totalSwaps, insertFailed,
                           enrichFailed>>
       ELSE LET lt == InsertOrIgnore(logsTable, LogRow(logs[i], epoch))
                swap == DecodeOutcome(logs[i]) = "swap" /\ r = "ok"
                st == IF swap THEN InsertOrIgnore(swapTable, SwapRow(logs[i], epoch))
                      ELSE swapTable
                data == [logData EXCEPT ![i] = [state |-> "done"]]
            IN  /\ logsTable' = lt
                /\ swapTable' = st
                /\ totalSwaps' = totalSwaps + (IF swap THEN 1 ELSE 0)
                /\ insertFailed' = (insertFailed \/ r = "insertSwapThrows")
                /\ UNCHANGED enrichFailed
                /\ IF Pending(data) # {}
                   THEN /\ logData' = data
                        /\ UNCHANGED <<logs, totalLogs, loopVars, meta>>
                   ELSE /\ totalLogs' = totalLogs + Len(logs)
                        /\ logs' = << >>
                        /\ logData' = << >>
                        /\ FinishWindow(lt, st)
    /\ UNCHANGED <<chainVars, paramVars, rpcCalls>>
    /\ UNCHANGED procVars

\* ------------------------------------------------------------------- chain
\* A new block is produced.
ChainAdvances ==
    /\ head < MaxHead
    /\ head' = head + 1
    /\ UNCHANGED <<epoch, storeVars, paramVars, loopVars, windowVars, faults>>
    /\ UNCHANGED procVars

\* The node reorganises (or another, lagging node answers): the reported head
\* may drop and block timestamps change.  Reorganisations are explored between
\* scans only.
Reorg ==
    /\ epoch < MaxReorgs
    /\ pc \in {"Idle", "Done", "Failed"}
    /\ epoch' = epoch + 1
    /\ head' \in 0..head
    /\ UNCHANGED <<storeVars, paramVars, loopVars, windowVars, faults>>
    /\ UNCHANGED procVars

Next ==
    \/ /\ \E inc \in BOOLEAN : StartScan(inc)
       /\ UNCHANGED auxVars
    \/ /\ \E inc \in BOOLEAN : StartScanFails(inc)
       /\ UNCHANGED auxVars
    \/ GetLogsReturns /\ UNCHANGED auxVars
    \/ GetLogsThrows /\ UNCHANGED auxVars
    \/ /\ \E i \in DOMAIN logData, ok \in BOOLEAN : BasicCallback(i, ok)
       /\ UNCHANGED auxVars
    \/ /\ \E i \in DOMAIN logData, r \in EnhancedResults : EnhancedCallback(i, r)
       /\ UNCHANGED auxVars
    \/ ChainAdvances /\ UNCHANGED auxVars
    \/ Reorg /\ UNCHANGED auxVars

Spec == Init /\ [][Next]_vars

\* ------------------------------------------------------------------ process
\* Variant of MainAfterScan: the server is started in a finally block, also
\* when the scan or the metrics computation threw.
MainAfterScanServesAnyway(ar, scanThrew, metricsThrew, writeThrew) ==
    IF ar.serve
    THEN [events |-> (IF scanThrew \/ metricsThrew THEN << >> ELSE <<"metrics">>)
                        \o <<"listen">>,
          exitCode |-> -1, mainPc |-> "serving", listening |-> TRUE]
    ELSE IF scanThrew \/ metricsThrew \/ (ar.export /\ writeThrew)
    THEN [events |-> <<"close", "exit">>, exitCode |-> 1, mainPc |-> "exited",
          listening |-> FALSE]
    ELSE [events |-> <<"metrics">> \o (IF ar.export THEN <<"export">> ELSE << >>)
                        \o <<"close", "exit">>,
          exitCode |-> 0, mainPc |-> "exited", listening |-> FALSE]

\* Variant of MainAfterScan: main has no catch block, so an exception ends
\* the process with status 1 and the handle is not closed.
MainAfterScanNoCatch(ar, scanThrew, metricsThrew, writeThrew) ==
    IF scanThrew \/ metricsThrew
    THEN [events |-> <<"exit">>, exitCode |-> 1, mainPc |-> "exited", listening |-> FALSE]
    ELSE IF ar.export /\ writeThrew
    THEN [events |-> <<"metrics", "exit">>, exitCode |-> 1, mainPc |-> "exited",
          listening |-> FALSE]
    ELSE IF ar.serve
    THEN [events |-> <<"metrics">> \o (IF ar.export THEN <<"export">> ELSE << >>)
                        \o <<"listen">>,
          exitCode |-> -1, mainPc |-> "serving", listening |-> TRUE]
    ELSE [events |-> <<"metrics">> \o (IF ar.export THEN <<"export">> ELSE << >>)
                        \o <<"close", "exit">>,
          exitCode |-> 0, mainPc |-> "exited", listening |-> FALSE]

\* Variant of MainAfterScan: the export and the server exclude each other, a
\* run that exports closes the handle and ends.
MainAfterScanExclusive(ar, scanThrew, metricsThrew, writeThrew) ==
    IF scanThrew \/ metricsThrew
    THEN [events |-> <<"close", "exit">>, exitCode |-> 1, mainPc |-> "exited",
          listening |-> FALSE]
    ELSE IF ar.export /\ writeThrew
    THEN [events |-> <<"metrics", "close", "exit">>, exitCode |-> 1, mainPc |-> "exited",
          listening |-> FALSE]
    ELSE IF ar.export
    THEN [events |-> <<"metrics", "export", "close", "exit">>, exitCode |-> 0,
          mainPc |-> "exited", listening |-> FALSE]
    ELSE IF ar.serve
    THEN [events |-> <<"metrics", "listen">>, exitCode |-> -1, mainPc |-> "serving",
          listening |-> TRUE]
    ELSE [events |-> <<"metrics", "close", "exit">>, exitCode |-> 0, mainPc |-> "exited",
          listening |-> FALSE]

\* The try block of main from the point where `await scanLogs` settles, and
\* its catch block: what main does then, in order, the status the process
\* ends with (-1: it does not end), and whether the server listens.
\*   scanThrew: scanLogs rejected; metricsThrew: the metrics function threw;
\*   writeThrew: writeFileSync threw.
MainAfterScan(ar, scanThrew, metricsThrew, writeThrew) ==
    IF scanThrew \/ metricsThrew
    THEN [events |-> <<"close", "exit">>, exitCode |-> 1, mainPc |-> "exited",
          listening |-> FALSE]
    ELSE IF ar.export /\ writeThrew
    THEN [events |-> <<"metrics", "close", "exit">>, exitCode |-> 1, mainPc |-> "exited",
          listening |-> FALSE]
    ELSE IF ar.serve
    THEN [events |-> <<"metrics">> \o (IF ar.export THEN <<"export">> ELSE << >>)
                        \o <<"listen">>,
          exitCode |-> -1, mainPc |-> "serving", listening |-> TRUE]
    ELSE [events |-> <<"metrics">> \o (IF ar.export THEN <<"export">> ELSE << >>)
                        \o <<"close", "exit">>,
          exitCode |-> 0, mainPc |-> "exited", listening |-> FALSE]

\* main up to the first await: parseArgs, initDatabase, createCitreaClient
\* and the call of scanLogs, whose getBlockNumber call is then in flight.
MainStart(serve, export) ==
    /\ mainPc = "notStarted"
    /\ pc = "Idle"
    /\ mainPc' = "scanning"
    /\ args' = [serve |-> serve, export |-> export]
    /\ mainTrace' = <<"initDatabase", "scanLogs">>
    /\ UNCHANGED <<exitCode, listening, requests, mainError>>
    /\ UNCHANGED <<chainVars, storeVars, paramVars, loopVars, windowVars, faults>>

\* The getBlockNumber call of main's scan returns, or throws.
MainScanStarts(inc) == mainPc = "scanning" /\ pc = "Idle" /\ StartScan(inc)
MainScanStartFails(inc) == mainPc = "scanning" /\ pc = "Idle" /\ StartScanFails(inc)

\* main resumes after scanLogs has returned: metrics, summary, export, then
\* startServer or db.close(), or the catch block when one of them throws.
MainResumes(dbThrows, writeThrows) ==
    /\ mainPc = "scanning"
    /\ pc = "Done"
    /\ LET m == MetricsOf(variant, logsTable, swapTable)
           threw == m.threw \/ dbThrows
       IN  /\ writeThrows => (args.export /\ ~threw)
           /\ LET r == MainAfterScan(args, FALSE, threw, writeThrows) IN
              /\ mainTrace' = mainTrace \o r.events
              /\ exitCode' = r.exitCode
              /\ mainPc' = r.mainPc
              /\ listening' = r.listening
              /\ mainError' = (IF threw THEN "metrics"
                               ELSE IF writeThrows THEN "export" ELSE "none")
    /\ UNCHANGED <<args, requests>>
    /\ UNCHANGED <<chainVars, storeVars, paramVars, loopVars, windowVars, faults>>

\* main resumes after scanLogs has thrown: the catch block.
MainCatches ==
    /\ mainPc = "scanning"
    /\ pc = "Failed"
    /\ LET r == MainAfterScan(args, TRUE, FALSE, FALSE) IN
       /\ mainTrace' = mainTrace \o r.events
       /\ exitCode' = r.exitCode
       /\ mainPc' = r.mainPc
       /\ listening' = r.listening
       /\ mainError' = "scan"
    /\ UNCHANGED <<args, requests>>
    /\ UNCHANGED <<chainVars, storeVars, paramVars, loopVars, windowVars, faults>>

\* Variant of HandleRequest: the metrics of a served request are cached in
\* the meta table.
HandleRequestCaching(method, url, dbThrows) ==
    /\ mainPc = "serving"
    /\ listening
    /\ Len(requests) < MaxRequests
    /\ dbThrows => Route(method, url)
    /\ LET m0 == MetricsOf(variant, logsTable, swapTable)
           m == [threw |-> m0.threw \/ dbThrows, metrics |-> m0.metrics]
           r == Handle(method, url, m)
       IN  /\ requests' = Append(requests, [method |-> method, url |-> url,
                                            dbThrows |-> dbThrows, threw |-> m.threw, status |-> r.status,
                                            error |-> r.error, body |-> r.body])
           /\ meta' = IF r.status = 200
                      THEN SetMeta(meta, "metricsCachedAt", ToString(Len(requests)))
                      ELSE meta
    /\ UNCHANGED <<mainPc, listening, exitCode, mainTrace, args, mainError>>
    /\ UNCHANGED <<chainVars, logsTable, swapTable, paramVars, loopVars, windowVars, faults>>

\* The server handles one request.  dbThrows: a statement of the metrics
\* function throws.  An exception that leaves the listener ends the process
\* with status 1.
HandleRequest(method, url, dbThrows) ==
    /\ mainPc = "serving"
    /\ listening
    /\ Len(requests) < MaxRequests
    /\ dbThrows => Route(method, url)
    /\ LET m0 == MetricsOf(variant, logsTable, swapTable)
           m == [threw |-> m0.threw \/ dbThrows, metrics |-> m0.metrics]
           r == Handle(method, url, m)
       IN  /\ requests' = Append(requests, [method |-> method, url |-> url,
                                            dbThrows |-> dbThrows, threw |-> m.threw, status |-> r.status,
                                            error |-> r.error, body |-> r.body])
           /\ IF r.crash
              THEN /\ mainPc' = "exited"
                   /\ listening' = FALSE
                   /\ exitCode' = 1
                   /\ mainTrace' = Append(mainTrace, "exit")
              ELSE UNCHANGED <<mainPc, listening, exitCode, mainTrace>>
    /\ UNCHANGED <<args, mainError>>
    /\ UNCHANGED <<chainVars, storeVars, paramVars, loopVars, windowVars, faults>>

NextMain ==
    \/ /\ \E serve \in BOOLEAN, export \in BOOLEAN : MainStart(serve, export)
       /\ UNCHANGED auxVars
    \/ /\ \E inc \in BOOLEAN : MainScanStarts(inc)
       /\ UNCHANGED auxVars
    \/ /\ \E inc \in BOOLEAN : MainScanStartFails(inc)
       /\ UNCHANGED auxVars
    \/ GetLogsReturns /\ UNCHANGED auxVars
    \/ GetLogsThrows /\ UNCHANGED auxVars
    \/ /\ \E i \in DOMAIN logData, ok \in BOOLEAN : BasicCallback(i, ok)
       /\ UNCHANGED auxVars
    \/ /\ \E i \in DOMAIN logData, r \in EnhancedResults : EnhancedCallback(i, r)
       /\ UNCHANGED auxVars
    \/ /\ \E dbThrows \in BOOLEAN, writeThrows \in BOOLEAN : MainResumes(dbThrows, writeThrows)
       /\ UNCHANGED auxVars
    \/ MainCatches /\ UNCHANGED auxVars
    \/ /\ \E method \in Methods, url \in Urls, dbThrows \in BOOLEAN :
             HandleRequest(method, url, dbThrows)
       /\ UNCHANGED auxVars
    \/ ChainAdvances /\ UNCHANGED auxVars

\* One run of main on an empty store.
SpecMain == Init /\ [][NextMain]_vars

\* The rows a scan of blocks 0..h without failures leaves in logs and in
\* swap_events.
ScannedLogs(h) ==
    InsertAll(EmptyTable, [i \in DOMAIN GetLogs(0, h) |-> LogRow(GetLogs(0, h)[i], 0)])
ScannedSwaps(h) ==
    LET swaps == SelectSeq(GetLogs(0, h), LAMBDA l : DecodeOutcome(l) = "swap")
    IN  InsertAll(EmptyTable, [i \in DOMAIN swaps |-> SwapRow(swaps[i], 0)])

\* A server that listens after a completed scan of blocks 0..head.  quiet:
\* the scanned address has no logs, so the scan has stored no row.
InitServe ==
    /\ head \in 0..MaxHead
    /\ epoch = 0
    /\ batchSize = MaxBatch
    /\ variant \in Variants
    /\ \E quiet \in BOOLEAN :
          /\ logsTable = (IF quiet THEN EmptyTable ELSE ScannedLogs(head))
          /\ swapTable = (IF quiet \/ variant = "basic" THEN EmptyTable
                          ELSE ScannedSwaps(head))
    /\ meta = SetMeta(EmptyTable, "lastScannedBlock", ToString(head))
    /\ pc = "Done"
    /\ incremental = FALSE
    /\ latestBlock = head
    /\ startBlock = 0
    /\ currentBlock = head + 1
    /\ endBlock = head
    /\ retries = MAX_RETRIES
    /\ logs = << >>
    /\ logData = << >>
    /\ totalLogs = Cardinality(DOMAIN logsTable)
    /\ totalSwaps = Cardinality(DOMAIN swapTable)
    /\ outcome = "complete"
    /\ atStart = [logs |-> EmptyTable, swaps |-> EmptyTable, meta |-> EmptyTable]
    /\ atWindow = [logs |-> EmptyTable, swaps |-> EmptyTable]
    /\ windows = << >>
    /\ attempts = 0
    /\ delays = << >>
    /\ rpcCalls = 0
    /\ metaWrites = 1
    /\ insertFailed = FALSE
    /\ enrichFailed = FALSE
    /\ scansRun = 1
    /\ faults = 0
    /\ prevScan = NoScan
    /\ mainPc = "serving"
    /\ args = [serve |-> TRUE, export |-> FALSE]
    /\ mainTrace = <<"initDatabase", "scanLogs", "metrics", "listen">>
    /\ exitCode = -1
    /\ listening = TRUE
    /\ requests = << >>
    /\ mainError = "none"
    /\ NoAux

NextServe ==
    /\ \E method \in Methods, url \in Urls, dbThrows \in BOOLEAN :
            HandleRequest(method, url, dbThrows)
    /\ UNCHANGED auxVars

SpecServe == InitServe /\ [][NextServe]_vars

\* ------------------------------------------------------------- properties
Checkpoint(m) == GetMeta(m, "lastScannedBlock")
HasCheckpoint(m) == Truthy(Checkpoint(m))
LastWindow == windows[Len(windows)]
\* This scan read the head and resolved its range.
Resolved == pc # "Idle" /\ outcome # "getBlockNumber"

\* C1: an incremental scan that finds checkpoint N and reads head H starts at
\* N + 1; every range it requests lies in [N+1, H], the first begins at N + 1
\* and, when the scan completes, the last ends at H.  If N + 1 > H the scan
\* ends normally as "up to date" having made no getLogs, receipt or block call
\* and no write to the store.
C1_ResumeRange ==
    (Resolved /\ incremental /\ HasCheckpoint(atStart.meta)) =>
        LET N == BigInt(Checkpoint(atStart.meta)) IN
        /\ startBlock = N + 1
        /\ N + 1 > latestBlock =>
             /\ pc = "Done"
             /\ outcome = "uptodate"
             /\ windows = << >>
             /\ attempts = 0
             /\ rpcCalls = 0
             /\ metaWrites = 0
             /\ Store = atStart
        /\ N + 1 <= latestBlock =>
             /\ windows # << >>
             /\ windows[1][1] = N + 1
             /\ \A k \in DOMAIN windows :
                  N + 1 <= windows[k][1] /\ windows[k][2] <= latestBlock
             /\ outcome = "complete" => LastWindow[2] = latestBlock

C1_Witness ==
    /\ incremental
    /\ HasCheckpoint(atStart.meta)
    /\ outcome = "complete"
    /\ Len(windows) >= 2
    /\ windows[1][1] = BigInt(Checkpoint(atStart.meta)) + 1

C1_WitnessUpToDate ==
    /\ incremental
    /\ HasCheckpoint(atStart.meta)
    /\ outcome = "uptodate"
    /\ logsTable # EmptyTable

\* C2: a scan that ends normally leaves a checkpoint at least as high as the
\* one it found, whatever head the node reported.
C2_CheckpointNonDecreasing ==
    (pc = "Done" /\ HasCheckpoint(atStart.meta)) =>
        /\ HasCheckpoint(meta)
        /\ BigInt(Checkpoint(meta)) >= BigInt(Checkpoint(atStart.meta))

C4_CheckpointOnceAtFixedHead ==
    [][ /\ metaWrites' <= 1
        /\ (metaWrites' = 1) <=> (outcome' = "complete")
        /\ outcome' = "complete" =>
             /\ pc' = "Done"
             /\ Checkpoint(meta') = ToString(latestBlock')
             /\ LastWindow'[2] = latestBlock'
             /\ currentBlock' > latestBlock'
        /\ (outcome = "complete" /\ scansRun' = scansRun) =>
             UNCHANGED <<logsTable, swapTable, meta>>
      ]_vars

C4_Witness ==
    /\ outcome = "complete"
    /\ Len(windows) >= 2
    /\ head > latestBlock
    /\ Checkpoint(meta) = ToString(latestBlock)
    /\ logsTable # atWindow.logs

\* C5: the ranges a scan passes to fetchLogsWithRetry tile [startBlock,
\* latestBlock]: the first begins at startBlock, each next one begins right
\* after the previous one, every range followed by another holds exactly
\* batchSize blocks, every range holds between 1 and batchSize blocks, and
\* the last range of a completed scan ends at latestBlock.
C5_WindowsTile ==
    windows # << >> =>
        /\ windows[1][1] = startBlock
        /\ \A k \in DOMAIN windows :
             /\ windows[k][2] - windows[k][1] + 1 >= 1
             /\ windows[k][2] - windows[k][1] + 1 <= batchSize
             /\ windows[k][2] <= latestBlock
             /\ k < Len(windows) =>
                  /\ windows[k][2] - windows[k][1] + 1 = batchSize
                  /\ windows[k + 1][1] = windows[k][2] + 1
        /\ outcome = "complete" => LastWindow[2] = latestBlock

C5_Witness ==
    /\ outcome = "complete"
    /\ Len(windows) >= 2
    /\ batchSize >= 2
    /\ LastWindow[2] - LastWindow[1] + 1 < batchSize

\* C6: when an insert of a window throws and ends the scan, the tables are as
\* they were when that window began and the checkpoint is as it was when the
\* scan began.
C6_WindowInsertsAllOrNothing ==
    (pc = "Failed" /\ outcome = "insert") =>
        /\ logsTable = atWindow.logs
        /\ swapTable = atWindow.swaps
        /\ meta = atStart.meta

\* C7: a receipt or block call that throws never ends the scan: no scan
\* throws an enrichment error.
C7_EnrichmentFailureSkipsOneLog ==
    enrichFailed => ~(pc = "Failed" /\ outcome = "enrich")

\* The transactions whose logs a scan of [startBlock, latestBlock] is given.
RangeTxs ==
    {GetLogs(startBlock, latestBlock)[i].transactionHash :
        i \in DOMAIN GetLogs(startBlock, latestBlock)}
RangeSwapTxs ==
    {GetLogs(startBlock, latestBlock)[i].transactionHash :
        i \in {j \in DOMAIN GetLogs(startBlock, latestBlock) :
                 DecodeEventLog(GetLogs(startBlock, latestBlock)[j]) = "Swap"}}

\* C8: a scan changes no row that was stored when it began, and a scan whose
\* range holds only transactions already in a table adds no row to that table.
C8_RescanAddsNothing ==
    Resolved =>
        /\ \A k \in DOMAIN atStart.logs :
             k \in DOMAIN logsTable /\ logsTable[k] = atStart.logs[k]
        /\ \A k \in DOMAIN atStart.swaps :
             k \in DOMAIN swapTable /\ swapTable[k] = atStart.swaps[k]
        /\ RangeTxs \subseteq DOMAIN atStart.logs => logsTable = atStart.logs
        /\ RangeSwapTxs \subseteq DOMAIN atStart.swaps => swapTable = atStart.swaps

C8_Witness ==
    /\ outcome = "complete"
    /\ RangeTxs # {}
    /\ RangeTxs \subseteq DOMAIN atStart.logs
    /\ RangeSwapTxs \subseteq DOMAIN atStart.swaps
    /\ totalLogs > 0
    /\ \E k \in RangeTxs : logsTable[k].timestamp # BlockTimestamp(k, epoch)

\* C9: for one range getLogs is called at most MAX_RETRIES + 1 times; before
\* its k-th retry fetchLogsWithRetry waits RETRY_DELAY_MS * k; an answer is
\* handed to scanLogs as it is, with no further call; and the error reaches
\* scanLogs only once the call made with no retry left has thrown.
C9_BoundedLinearRetry ==
    [][ /\ attempts' <= MAX_RETRIES + 1
        /\ pc' = "Fetching" =>
             /\ attempts' = MAX_RETRIES - retries' + 1
             /\ Len(delays') = attempts' - 1
             /\ \A k \in DOMAIN delays' : delays'[k] = RETRY_DELAY_MS * k
        /\ outcome' = "getLogs" =>
             /\ pc' = "Failed"
             /\ retries' = 0
             /\ attempts' = MAX_RETRIES + 1
             /\ Len(delays') = MAX_RETRIES
        /\ (pc = "Fetching" /\ pc' = "Enriching") =>
             /\ logs' = GetLogs(currentBlock, endBlock)
             /\ windows' = windows
      ]_vars

C9_Witness ==
    /\ pc = "Failed"
    /\ outcome = "getLogs"
    /\ attempts = MAX_RETRIES + 1
    /\ delays = <<RETRY_DELAY_MS, 2 * RETRY_DELAY_MS, 3 * RETRY_DELAY_MS>>

\* C10: no scan in which an insert threw ends normally with a checkpoint.
C10_InsertFailureAbortsScan ==
    insertFailed => outcome # "complete"

\* C11: a scan starts at block 0 when it is not incremental, whether or not a
\* checkpoint is stored, and when it is incremental and no checkpoint is
\* stored; it starts at checkpoint + 1 exactly when it is incremental and a
\* checkpoint is stored, and a stored checkpoint of 0 gives start block 1.
C11_StartBlockResolution ==
    Resolved =>
        LET stored == "lastScannedBlock" \in DOMAIN atStart.meta IN
        /\ ~incremental => startBlock = 0
        /\ (incremental /\ ~stored) => startBlock = 0
        /\ (incremental /\ stored) =>
             startBlock = BigInt(atStart.meta["lastScannedBlock"]) + 1
        /\ (incremental /\ stored /\ atStart.meta["lastScannedBlock"] = ToString(0)) =>
             startBlock = 1

\* An incremental scan over a stored checkpoint of 0 has resolved its range.
C11_Witness ==
    /\ Resolved
    /\ incremental
    /\ "lastScannedBlock" \in DOMAIN atStart.meta
    /\ atStart.meta["lastScannedBlock"] = ToString(0)
    /\ startBlock = 1
    /\ latestBlock >= 1

\* A full scan over a store that holds a checkpoint above 0 starts at 0.
C11_WitnessFullScan ==
    /\ Resolved
    /\ ~incremental
    /\ "lastScannedBlock" \in DOMAIN atStart.meta
    /\ BigInt(atStart.meta["lastScannedBlock"]) > 0
    /\ startBlock = 0
    /\ windows # << >>

Rows(table) == {table[k] : k \in DOMAIN table}

\* C13: in every reachable state no two rows of logs and no two rows of
\* swap_events share a tx_hash, and no step of any scan, full or incremental,
\* changes or removes a row that is stored.
C13_UniqueAndAppendOnly ==
    /\ [](/\ \A k1, k2 \in DOMAIN logsTable :
               k1 # k2 => logsTable[k1].tx_hash # logsTable[k2].tx_hash
          /\ \A k1, k2 \in DOMAIN swapTable :
               k1 # k2 => swapTable[k1].tx_hash # swapTable[k2].tx_hash)
    /\ [][/\ \A k \in DOMAIN logsTable :
               k \in DOMAIN logsTable' /\ logsTable'[k] = logsTable[k]
          /\ \A k \in DOMAIN swapTable :
               k \in DOMAIN swapTable' /\ swapTable'[k] = swapTable[k]]_vars

\* A later full scan has completed over rows of an earlier scan, among them
\* the row of the transaction with two Swap logs, whose block the chain has
\* replaced since, and it has added a row of its own.
C13_Witness ==
    /\ scansRun >= 2
    /\ ~incremental
    /\ outcome = "complete"
    /\ 1 \in DOMAIN atStart.logs
    /\ 1 \in DOMAIN logsTable
    /\ logsTable[1].timestamp # BlockTimestamp(1, epoch)
    /\ Cardinality(Rows(logsTable)) > Cardinality(Rows(atStart.logs))

\* The Swap logs getLogs returns for the range of this scan.
RangeSwapLogs ==
    {i \in DOMAIN GetLogs(startBlock, latestBlock) :
        DecodeEventLog(GetLogs(startBlock, latestBlock)[i]) = "Swap"}

\* C14: after a scan of the enhanced scanner has completed on an empty store
\* with no insert failure, swap_events holds as many rows as the range has
\* Swap logs, also when one transaction emitted several of them.
C14_OneRowPerSwapLog ==
    (/\ variant = "enhanced"
     /\ outcome = "complete"
     /\ ~insertFailed
     /\ atStart.logs = EmptyTable
     /\ atStart.swaps = EmptyTable) =>
        Cardinality(DOMAIN swapTable) = Cardinality(RangeSwapLogs)

\* C15: in the enhanced scanner a log that is no Swap (decodeEventLog throws
\* or yields another event) adds no swap_events row and raises nothing.  No
\* scan ends because of a decoding; a scan that fails has one of the other
\* causes; once the callback of such a log has run its logs row is stored;
\* swap_events gains rows only for transactions with a Swap log; and a
\* completed scan has stored a logs row for every log of its range.
C15_NonSwapLogSkipped ==
    (variant = "enhanced" /\ Resolved) =>
        /\ outcome \in {"none", "complete", "uptodate", "getLogs", "enrich",
                        "insert", "progress"}
        /\ outcome = "getLogs" => attempts = MAX_RETRIES + 1
        /\ outcome = "enrich" => enrichFailed
        /\ outcome = "insert" => insertFailed
        /\ outcome = "progress" => startBlock = latestBlock
        /\ \A i \in DOMAIN logData :
             (logData[i].state = "done" /\ DecodeEventLog(logs[i]) # "Swap") =>
                logs[i].transactionHash \in DOMAIN logsTable
        /\ DOMAIN swapTable \subseteq DOMAIN atStart.swaps \cup RangeSwapTxs
        /\ outcome = "complete" => RangeTxs \subseteq DOMAIN logsTable

\* An enhanced scan has completed over a range holding a Transfer log and an
\* undecodable log (both of transaction 2): the logs row is stored, no
\* swap_events row is.
C15_Witness ==
    /\ variant = "enhanced"
    /\ outcome = "complete"
    /\ \E i, j \in DOMAIN GetLogs(startBlock, latestBlock) :
         /\ DecodeEventLog(GetLogs(startBlock, latestBlock)[i]) = "Transfer"
         /\ DecodeEventLog(GetLogs(startBlock, latestBlock)[j]) = "throws"
    /\ 2 \in DOMAIN logsTable
    /\ 2 \notin DOMAIN swapTable
    /\ 2 \notin DOMAIN atStart.logs
    /\ totalLogs >= 2

\* The metrics the installed metrics function computes from the store.
CurrentMetrics == MetricsOf(variant, logsTable, swapTable).metrics

\* C16 (as stated): every GET request for exactly /metrics is answered 200
\* with the current metrics, every other request 404 with an {error} body.
C16_RoutingAsStated ==
    \A i \in DOMAIN requests :
        LET q == requests[i] IN
        IF q.method = "GET" /\ q.url = "/metrics"
        THEN q.status = 200 /\ q.body = <<CurrentMetrics>>
        ELSE q.status = 404 /\ q.error # "" /\ q.body = << >>

\* C16 (amended): a GET request for exactly /metrics is answered 200 with the
\* current metrics unless computing the metrics throws, and 500 with an
\* {error} body when it throws; every other method or URL, /metrics with
\* another method included, is answered 404 with an {error} body.
C16_Routing ==
    \A i \in DOMAIN requests :
        LET q == requests[i] IN
        IF q.method = "GET" /\ q.url = "/metrics"
        THEN IF q.threw
             THEN q.status = 500 /\ q.error # "" /\ q.body = << >>
             ELSE q.status = 200 /\ q.error = "" /\ q.body = <<CurrentMetrics>>
        ELSE q.status = 404 /\ q.error # "" /\ q.body = << >>

\* Over a store with rows the server has answered POST /metrics and then
\* GET /metrics.
C16_Witness ==
    /\ Len(requests) = 2
    /\ requests[1].method = "POST" /\ requests[1].url = "/metrics"
    /\ requests[1].status = 404
    /\ requests[2].method = "GET" /\ requests[2].url = "/metrics"
    /\ requests[2].status = 200
    /\ requests[2].body[1].uniqueTxCount >= 2

\* C17: a metrics function that throws while GET /metrics is served is
\* answered 500 with an {error} body, and the server goes on: it still
\* listens, the process has not ended, a further request can be handled, and
\* a later GET /metrics is answered 200 when the computation does not throw.
C17_ThrowGives500ServerSurvives ==
    /\ listening /\ mainPc = "serving" /\ exitCode = -1
    /\ \A i \in DOMAIN requests :
          requests[i].threw =>
             /\ requests[i].status = 500
             /\ requests[i].error = "Failed to calculate metrics"
             /\ requests[i].body = << >>
    /\ \A i, j \in DOMAIN requests :
          (/\ i < j
           /\ requests[i].threw
           /\ requests[j].method = "GET" /\ requests[j].url = "/metrics"
           /\ ~requests[j].threw) =>
              requests[j].status = 200 /\ requests[j].body = <<CurrentMetrics>>
    /\ (Len(requests) < MaxRequests) => ENABLED HandleRequest("GET", "/metrics", FALSE)

\* A GET /metrics answered 500 is followed by one answered 200.
C17_Witness ==
    /\ Len(requests) = 2
    /\ requests[1].threw /\ requests[1].status = 500
    /\ requests[2].method = "GET" /\ requests[2].url = "/metrics"
    /\ requests[2].status = 200
    /\ listening

\* C18: over a store without rows a GET /metrics whose statements do not
\* throw is answered 200 with uniqueUsers 0, uniqueTxCount 0, total gas
\* "0.0000", no top caller and no daily entry, and totalSwaps 0 in the
\* enhanced variant.
C18_EmptyStoreGivesZeros ==
    \A i \in DOMAIN requests :
        LET q == requests[i] IN
        (/\ logsTable = EmptyTable
         /\ swapTable = EmptyTable
         /\ q.method = "GET" /\ q.url = "/metrics"
         /\ ~q.dbThrows) =>
            /\ q.status = 200
            /\ Len(q.body) = 1
            /\ q.body[1].uniqueUsers = 0
            /\ q.body[1].uniqueTxCount = 0
            /\ q.body[1].totalGas_cBTC = [whole |-> 0, frac |-> 0]
            /\ q.body[1].topCallers = << >>
            /\ q.body[1].dailyStats = << >>
            /\ variant = "enhanced" =>
                 q.body[1].totalSwaps = 0 /\ q.body[1].volumeIn = {}

\* The enhanced server has answered GET /metrics over a store without rows.
C18_Witness ==
    /\ variant = "enhanced"
    /\ logsTable = EmptyTable
    /\ swapTable = EmptyTable
    /\ \E i \in DOMAIN requests :
         /\ requests[i].method = "GET" /\ requests[i].url = "/metrics"
         /\ requests[i].status = 200
         /\ requests[i].body[1].totalSwaps = 0

\* How often event e occurs in main's trace.
Count(e) == Cardinality({i \in DOMAIN mainTrace : mainTrace[i] = e})

\* C19: computing metrics and handling HTTP requests never change the store.
\* A step that changes logs, swap_events or meta is a step of scanLogs (a
\* getLogs answer or an enrichment callback of the scan main awaits); the
\* step in which main computes its metrics, exports and starts the server or
\* exits, and every step that handles a request, leave all three unchanged.
C19_OnlyScanWritesStore ==
    /\ [][storeVars' # storeVars =>
             /\ mainPc = "scanning" /\ mainPc' = "scanning"
             /\ pc \in {"Fetching", "Enriching"}
             /\ requests' = requests
             /\ mainTrace' = mainTrace]_vars
    /\ [][(requests' # requests \/ mainTrace' # mainTrace) =>
             storeVars' = storeVars]_vars
    /\ [](mainPc = "serving" => pc = "Done" /\ Checkpoint(meta) = ToString(latestBlock))

\* After a scan that stored rows and a checkpoint, main has computed its
\* metrics and exported them, and the server has answered GET /metrics twice
\* with the metrics of the store.
C19_Witness ==
    /\ mainPc = "serving"
    /\ args.export
    /\ Count("metrics") = 1 /\ Count("export") = 1
    /\ Len(requests) = 2
    /\ \A i \in DOMAIN requests :
          requests[i].status = 200 /\ requests[i].body = <<CurrentMetrics>>
    /\ Cardinality(DOMAIN logsTable) >= 2
    /\ HasCheckpoint(meta)
    /\ Store # atStart

\* C20: in main an error thrown by the scan, by the metrics function or by
\* the export is followed by db.close() and then the end of the process with
\* status 1, the handle being closed once; a run without --serve in which
\* nothing throws closes the handle once and ends with status 0; a run with
\* --serve true in which nothing throws never closes the handle and does not
\* end.  A scan that has thrown leaves main in its catch block.
C20_MainExitAndClose ==
    /\ mainError # "none" =>
          /\ mainPc = "exited"
          /\ exitCode = 1
          /\ Count("close") = 1
          /\ Len(mainTrace) >= 2
          /\ SubSeq(mainTrace, Len(mainTrace) - 1, Len(mainTrace)) = <<"close", "exit">>
    /\ pc = "Failed" => (mainPc = "scanning" /\ ENABLED MainCatches) \/ mainError = "scan"
    /\ (mainPc = "exited" /\ mainError = "none") =>
          /\ ~args.serve
          /\ pc = "Done"
          /\ exitCode = 0
          /\ Count("close") = 1
          /\ Count("listen") = 0
    /\ (mainPc # "exited" /\ mainPc # "notStarted") =>
          /\ mainError = "none"
          /\ exitCode = -1
          /\ Count("close") = 0
    /\ (args.serve /\ mainError = "none" /\ mainPc # "notStarted") =>
          /\ mainPc \in {"scanning", "serving"}
          /\ exitCode = -1
          /\ Count("close") = 0
    /\ (~args.serve /\ mainPc # "notStarted") =>
          /\ mainPc \in {"scanning", "exited"}
          /\ ~listening
    /\ listening <=> mainPc = "serving"

\* The export of a run without --serve has thrown after a completed scan
\* that stored rows.
C20_Witness ==
    /\ mainError = "export"
    /\ ~args.serve
    /\ exitCode = 1
    /\ pc = "Done"
    /\ logsTable # EmptyTable
    /\ mainTrace = <<"initDatabase", "scanLogs", "metrics", "close", "exit">>

\* A scan started with --serve true has thrown: the server never listens.
C20_WitnessServeScanThrows ==
    /\ mainError = "scan"
    /\ args.serve
    /\ exitCode = 1
    /\ Count("listen") = 0
    /\ Count("close") = 1

\* A run without --serve has ended with status 0, and a run with --serve true
\* serves.
C20_WitnessSuccess == mainPc = "exited" /\ exitCode = 0 /\ args.export
C20_WitnessServing == mainPc = "serving" /\ Len(requests) = MaxRequests /\ Count("close") = 0

\* The positions of event e in main's trace.
Positions(e) == {i \in DOMAIN mainTrace : mainTrace[i] = e}

\* C21 (as stated): no run of main both writes the export file and starts
\* the HTTP server.
C21_ExportExcludesServe == ~(Count("export") >= 1 /\ Count("listen") >= 1)

\* C21 (amended): the export and the server do not exclude each other.  A
\* run writes the export file at most once and only with --export, starts
\* the server at most once and only with --serve true; a run in which
\* nothing throws writes the file exactly when --export is given and starts
\* the server exactly when --serve true is given, so with both it does both,
\* the export before the server starts.
C21_ExportAndServeIndependent ==
    /\ Count("export") <= 1 /\ Count("listen") <= 1
    /\ Count("export") = 1 => args.export
    /\ Count("listen") = 1 => args.serve
    /\ (mainPc \in {"serving", "exited"} /\ mainError = "none") =>
          /\ Count("export") = 1 <=> args.export
          /\ Count("listen") = 1 <=> args.serve
    /\ \A i \in Positions("export"), j \in Positions("listen") : i < j

\* A run with --export and --serve true has written the file and serves
\* requests.
C21_Witness ==
    /\ args.export /\ args.serve
    /\ mainPc = "serving"
    /\ Count("export") = 1 /\ Count("listen") = 1
    /\ Len(requests) >= 1
    /\ requests[1].status = 200

\* The gas the receipts of transactions ks report, added as numbers.
RECURSIVE SumGas(_)
SumGas(ks) ==
    IF ks = {} THEN 0
    ELSE LET k == CHOOSE x \in ks : TRUE
         IN  Receipt(k).gasUsed + SumGas(ks \ {k})

\* C22: over the stored rows the metrics functions report uniqueUsers = the
\* number of distinct from_address values and uniqueTxCount = the number of
\* rows, and the total they scale is the sum of the gas_used of the rows,
\* each text read back as the number the receipt gave.  A store whose rows
\* have senders A, B, A and gas 21000, 42000, 21000 gives 2, 3 and 84000.
C22_MetricsTotals ==
    /\ SqlSum(logsTable, "gas_used").value = SumGas(DOMAIN logsTable)
    /\ CurrentMetrics.uniqueUsers = Cardinality({r.from_address : r \in Rows(logsTable)})
    /\ CurrentMetrics.uniqueTxCount = Cardinality(Rows(logsTable))
    /\ CurrentMetrics.totalGas_cBTC = ToFixed4(SumGas(DOMAIN logsTable))
    /\ \A i \in DOMAIN requests :
          requests[i].status = 200 => requests[i].body = <<CurrentMetrics>>
    /\ (/\ DOMAIN logsTable = {0, 1, 2}
        /\ logsTable[0].from_address = logsTable[2].from_address
        /\ logsTable[0].from_address # logsTable[1].from_address
        /\ logsTable[0].gas_used = ToString(21000)
        /\ logsTable[1].gas_used = ToString(42000)
        /\ logsTable[2].gas_used = ToString(21000)) =>
          /\ CurrentMetrics.uniqueUsers = 2
          /\ CurrentMetrics.uniqueTxCount = 3
          /\ SqlSum(logsTable, "gas_used") = [isNull |-> FALSE, value |-> 84000]

\* The server has answered GET /metrics over the rows of senders A, B, A.
C22_Witness ==
    /\ DOMAIN logsTable = {0, 1, 2}
    /\ logsTable[0].from_address = logsTable[2].from_address
    /\ logsTable[0].from_address # logsTable[1].from_address
    /\ SumGas(DOMAIN logsTable) = 84000
    /\ \E i \in DOMAIN requests :
         /\ requests[i].status = 200
         /\ requests[i].body[1].uniqueUsers = 2
         /\ requests[i].body[1].uniqueTxCount = 3

\* ------------------------------------------------- parseArgs on command lines
MaxArgs == 3

Tokens == {"--address", "--incremental", "--serve", "--export", "--verbose",
           "true", "TRUE", "false", "0xB", "out.json", ""}

CommandLines == UNION {[1..n -> Tokens] : n \in 0..MaxArgs}

\* tokens with token t put in front of position pos (1..Len + 1).
InsertAt(tokens, pos, t) ==
    [k \in 1..(Len(tokens) + 1) |->
        IF k < pos THEN tokens[k] ELSE IF k = pos THEN t ELSE tokens[k - 1]]

\* A process started with some command line; no chain or store activity.
InitArgs ==
    /\ InitScanWith({1})
    /\ head = 0
    /\ variant = "basic"
    /\ NoProcess
    /\ argv \in CommandLines
    /\ cliPc = "idle"
    /\ parsedArgs = DefaultArgs
    /\ basisArgs = DefaultArgs
    /\ covered = [b \in 0..MaxHead |-> 0]
    /\ otherRuns = 0
    /\ address = DEFAULT_CONTRACT
    /\ requested = {}

\* const args = parseArgs();
Parse ==
    /\ cliPc \in {"idle", "added"}
    /\ parsedArgs' = ParseArgs(argv)
    /\ cliPc' = IF cliPc = "idle" THEN "parsed" ELSE "reparsed"
    /\ UNCHANGED <<argv, basisArgs>>

\* The same command line is used again with the flag --verbose, which
\* parseArgs does not recognise, added in front of position pos.
AddUnrecognised(pos) ==
    /\ cliPc = "parsed"
    /\ pos \in 1..(Len(argv) + 1)
    /\ argv' = InsertAt(argv, pos, "--verbose")
    /\ basisArgs' = parsedArgs
    /\ cliPc' = "added"
    /\ UNCHANGED parsedArgs

NextArgs ==
    \/ /\ Parse
       /\ UNCHANGED <<chainVars, storeVars, paramVars, loopVars, windowVars, faults,
                      procVars, covered, otherRuns, address, requested>>
    \/ /\ \E pos \in 1..(MaxArgs + 1) : AddUnrecognised(pos)
       /\ UNCHANGED <<chainVars, storeVars, paramVars, loopVars, windowVars, faults,
                      procVars, covered, otherRuns, address, requested>>

SpecArgs == InitArgs /\ [][NextArgs]_vars

\* C23: parseArgs ignores every unrecognised token, so that adding an
\* unrecognised flag anywhere in a command line leaves the values parsed for
\* the recognised flags as they were.
C23_UnrecognisedFlagIgnored ==
    cliPc = "reparsed" => parsedArgs = basisArgs

\* C24: in both scanners a scan over a range with lower bound <= upper bound,
\* the one-block range included, whose RPC calls and inserts all succeed ends
\* normally with lastScannedBlock = upper: a scan that fails has a failed
\* call or a failed insert as its cause, and a completed one has stored the
\* upper bound.
C24_SucceedingScanCompletes ==
    (Resolved /\ startBlock <= latestBlock) =>
        /\ pc = "Failed" => outcome \in {"getLogs", "enrich", "insert"}
        /\ (pc = "Done" /\ outcome = "complete") =>
              GetMeta(meta, "lastScannedBlock") = ToString(latestBlock)

\* C25 as stated: once a scan has completed and stored its checkpoint, every
\* transaction with a log in the scanned range has a row in logs.
C25_CheckpointCoversEveryLog ==
    (pc = "Done" /\ outcome = "complete") => RangeTxs \subseteq DOMAIN logsTable

\* C25: a scan writes the checkpoint only when it completes, and then stores
\* its upper bound; every transaction with a log in the range of a completed
\* scan has a row in logs unless a receipt or block lookup of the basic
\* scanner failed during that scan, in which case the log is dropped and the
\* checkpoint is stored all the same.  A completed enhanced scan has a row
\* for every transaction of its range.
C25_CheckpointCoversEnrichedLogs ==
    Resolved =>
        /\ meta # atStart.meta => (pc = "Done" /\ outcome = "complete")
        /\ (pc = "Done" /\ outcome = "complete") =>
              /\ GetMeta(meta, "lastScannedBlock") = ToString(latestBlock)
              /\ (variant = "enhanced" \/ ~enrichFailed) =>
                    RangeTxs \subseteq DOMAIN logsTable
              /\ Cardinality(RangeTxs \ DOMAIN logsTable) <= MaxFaults

\* A basic scan of at least two blocks has completed and stored its
\* checkpoint although the log whose lookup failed has no row.
C25_Witness ==
    /\ variant = "basic"
    /\ pc = "Done"
    /\ outcome = "complete"
    /\ enrichFailed
    /\ latestBlock >= 1
    /\ GetMeta(meta, "lastScannedBlock") = ToString(latestBlock)
    /\ RangeTxs \ DOMAIN logsTable # {}
    /\ DOMAIN logsTable # {}

\* C26: the rows a scan stores do not depend on the order in which the
\* concurrent lookups of a window complete: a full scan of the unreorganised
\* chain that has completed on an empty store without an insert failure
\* leaves the logs and swap_events contents that inserting the rows in the
\* order of the logs leaves, also when logs share a transaction hash.
C26_RowsIndependentOfCompletionOrder ==
    (/\ pc = "Done"
     /\ outcome = "complete"
     /\ ~insertFailed
     /\ ~enrichFailed
     /\ startBlock = 0
     /\ epoch = 0
     /\ atStart.logs = EmptyTable
     /\ atStart.swaps = EmptyTable) =>
        /\ logsTable = ScannedLogs(latestBlock)
        /\ variant = "enhanced" => swapTable = ScannedSwaps(latestBlock)

\* ------------------------------------------------ scans under any BATCH_SIZE
\* Windows after which a scan is no longer followed: more than a scan of
\* MaxHead + 1 blocks has when each window holds at least one block.
MaxWindows == 5

\* A process started with BATCH_SIZE set to a text BigInt accepts, 0 included,
\* on the database an earlier process left with checkpoint c (c = -1: a new
\* database).
InitConfig ==
    /\ head \in 0..MaxHead
    /\ epoch = 0
    /\ batchSize \in 0..MaxBatch
    /\ variant \in Variants
    /\ \E c \in -1..MaxHead :
          /\ c <= head
          /\ logsTable = (IF c = -1 THEN EmptyTable ELSE ScannedLogs(c))
          /\ swapTable = (IF c = -1 \/ variant = "basic" THEN EmptyTable
                          ELSE ScannedSwaps(c))
          /\ meta = (IF c = -1 THEN EmptyTable
                     ELSE SetMeta(EmptyTable, "lastScannedBlock", ToString(c)))
    /\ IdleScanner
    /\ NoProcess
    /\ NoAux

\* Scans all of whose RPC calls return and all of whose inserts succeed.
NextConfig ==
    \/ /\ \E inc \in BOOLEAN : StartScan(inc)
       /\ UNCHANGED auxVars
    \/ /\ Len(windows) < MaxWindows
       /\ GetLogsReturns
       /\ UNCHANGED auxVars
    \/ /\ Len(windows) < MaxWindows
       /\ \E i \in DOMAIN logData : BasicCallback(i, TRUE)
       /\ UNCHANGED auxVars
    \/ /\ Len(windows) < MaxWindows
       /\ \E i \in DOMAIN logData : EnhancedCallback(i, "ok")
       /\ UNCHANGED auxVars
    \/ ChainAdvances /\ UNCHANGED auxVars

SpecConfig == InitConfig /\ [][NextConfig]_vars

\* C27: the window loop makes progress for every window size the
\* configuration can produce: each window of a scan begins above the one
\* before it, so a scan whose calls all return has at most one window per
\* block of its range.
C27_WindowsAdvance ==
    /\ \A i \in 1..(Len(windows) - 1) : windows[i + 1][1] > windows[i][1]
    /\ Resolved => Len(windows) <= latestBlock - startBlock + 1

\* ---------------------------------------------- successive successful scans
\* getLogs returns for the window [currentBlock, endBlock]: its blocks have
\* been fetched once more.
FetchRecorded ==
    /\ covered' = [b \in 0..MaxHead |->
                     covered[b] + (IF currentBlock <= b /\ b <= endBlock THEN 1 ELSE 0)]
    /\ UNCHANGED <<cliVars, otherRuns, address, requested>>

\* A full scan, then incremental scans, each begun after the one before it
\* has returned normally, on a chain whose head does not decrease.  A getLogs
\* call may throw and be retried, and the basic scanner may drop a log.
NextRuns ==
    \/ /\ pc \in {"Idle", "Done"}
       /\ StartScan(scansRun > 0)
       /\ UNCHANGED auxVars
    \/ /\ GetLogsReturns
       /\ FetchRecorded
    \/ GetLogsThrows /\ UNCHANGED auxVars
    \/ /\ \E i \in DOMAIN logData, ok \in BOOLEAN : BasicCallback(i, ok)
       /\ UNCHANGED auxVars
    \/ /\ \E i \in DOMAIN logData : EnhancedCallback(i, "ok")
       /\ UNCHANGED auxVars
    \/ ChainAdvances /\ UNCHANGED auxVars

SpecRuns == Init /\ [][NextRuns]_vars

\* C28: in a sequence of successful scans, the first full and the later ones
\* incremental, under a head that does not decrease, an incremental scan
\* starts at the checkpoint it finds + 1, no block is fetched twice, the
\* fetched blocks are [0, end of the last fetched window] without a gap, and
\* when a scan has returned they are exactly the blocks [0, checkpoint].
C28_NoGapNoOverlap ==
    /\ \A b \in 0..MaxHead : covered[b] <= 1
    /\ \A b \in 1..MaxHead : covered[b] = 1 => covered[b - 1] = 1
    /\ (Resolved /\ HasCheckpoint(atStart.meta)) =>
          startBlock = BigInt(Checkpoint(atStart.meta)) + 1
    /\ (Resolved /\ ~HasCheckpoint(atStart.meta)) => startBlock = 0
    /\ pc = "Done" =>
          /\ HasCheckpoint(meta)
          /\ \A b \in 0..MaxHead :
                covered[b] = (IF b <= BigInt(Checkpoint(meta)) THEN 1 ELSE 0)

\* A full scan and two incremental scans have completed, the last one over
\* new blocks, and every block up to the head has been fetched once.
C28_Witness ==
    /\ scansRun = 3
    /\ pc = "Done"
    /\ outcome = "complete"
    /\ incremental
    /\ startBlock >= 2
    /\ prevScan.ran /\ prevScan.incremental /\ prevScan.startBlock = 1
    /\ Checkpoint(meta) = ToString(latestBlock)
    /\ \A b \in 0..latestBlock : covered[b] = 1

\* Table t holds every row of table s, unchanged.
Keeps(t, s) == \A k \in DOMAIN s : k \in DOMAIN t /\ t[k] = s[k]

\* C29: when a scan has aborted in a window, the rows the windows before it
\* committed are in the store, and everything stored when the scan began is
\* unchanged: every row of logs and swap_events, and the checkpoint.
C29_AbortKeepsEarlierWindows ==
    (pc = "Failed" /\ Resolved) =>
        /\ Keeps(logsTable, atWindow.logs)
        /\ Keeps(swapTable, atWindow.swaps)
        /\ Keeps(atWindow.logs, atStart.logs)
        /\ Keeps(atWindow.swaps, atStart.swaps)
        /\ meta = atStart.meta
        /\ (variant = "enhanced" \/ ~enrichFailed) =>
              \A i \in DOMAIN GetLogs(startBlock, LastWindow[1] - 1) :
                 GetLogs(startBlock, LastWindow[1] - 1)[i].transactionHash
                     \in DOMAIN logsTable

\* An incremental scan on a store with rows and a checkpoint has aborted in
\* its second window or later, after an earlier window added rows.
C29_Witness ==
    /\ pc = "Failed"
    /\ Resolved
    /\ Len(windows) >= 2
    /\ HasCheckpoint(atStart.meta)
    /\ atStart.logs # EmptyTable
    /\ DOMAIN atWindow.logs # DOMAIN atStart.logs
    /\ Keeps(logsTable, atWindow.logs)
    /\ meta = atStart.meta

\* ---------------------------------------------------------- overlapping runs
MaxOtherRuns == 1

\* A scan by a second process on the same database file, from its
\* getBlockNumber call to its return, while the scan of this process is
\* under way: it reads the head and the checkpoint as they are now, stores
\* the rows of its range and, unless its progress computation throws, writes
\* the head it read as the checkpoint.
OtherScanRuns(inc) ==
    /\ pc \in {"Fetching", "Enriching"}
    /\ otherRuns < MaxOtherRuns
    /\ otherRuns' = otherRuns + 1
    /\ LET start == ResolveStart(inc, meta)
           ls == GetLogs(start, head)
           swaps == SelectSeq(ls, LAMBDA l : DecodeOutcome(l) = "swap")
       IN  IF start > head
           THEN UNCHANGED storeVars
           ELSE /\ logsTable' = InsertAll(logsTable,
                                          [i \in DOMAIN ls |-> LogRow(ls[i], epoch)])
                /\ swapTable' = (IF variant = "enhanced"
                                 THEN InsertAll(swapTable,
                                        [i \in DOMAIN swaps |-> SwapRow(swaps[i], epoch)])
                                 ELSE swapTable)
                /\ meta' = (IF ProgressThrows(variant, start, head) THEN meta
                            ELSE SetMeta(meta, "lastScannedBlock",
                                         CheckpointText(head, head)))
    /\ UNCHANGED <<chainVars, paramVars, loopVars, windowVars, faults, procVars,
                   cliVars, covered, address, requested>>

\* Scans of this process, all of whose calls and inserts succeed, on a chain
\* whose head does not decrease, and scans of a second process in between.
NextOverlap ==
    \/ /\ \E inc \in BOOLEAN : StartScan(inc)
       /\ UNCHANGED auxVars
    \/ GetLogsReturns /\ UNCHANGED auxVars
    \/ /\ \E i \in DOMAIN logData : BasicCallback(i, TRUE)
       /\ UNCHANGED auxVars
    \/ /\ \E i \in DOMAIN logData : EnhancedCallback(i, "ok")
       /\ UNCHANGED auxVars
    \/ ChainAdvances /\ UNCHANGED auxVars
    \/ \E inc \in BOOLEAN : OtherScanRuns(inc)

SpecOverlap == Init /\ [][NextOverlap]_vars

\* C30: when scanLogs runs overlap on one store under a head that does not
\* decrease, a stored lastScannedBlock stays stored and never decreases.
C30_OverlapKeepsCheckpoint ==
    [][HasCheckpoint(meta) =>
          /\ HasCheckpoint(meta')
          /\ BigInt(Checkpoint(meta')) >= BigInt(Checkpoint(meta))]_vars

\* C31: in every state of a store written by the enhanced scanner each
\* swap_events row has a logs row with the same tx_hash, block_number and
\* timestamp.
C31_SwapRowHasLogsRow ==
    \A k \in DOMAIN swapTable :
        /\ k \in DOMAIN logsTable
        /\ logsTable[k].tx_hash = swapTable[k].tx_hash
        /\ logsTable[k].block_number = swapTable[k].block_number
        /\ logsTable[k].timestamp = swapTable[k].timestamp

\* C32: the counts a completed scan reports as newly indexed equal the
\* numbers of rows the scan added to logs and, in the enhanced scanner, to
\* swap_events.
C32_ReportedCountsAreRowsAdded ==
    (pc = "Done" /\ outcome = "complete") =>
        /\ totalLogs = Cardinality(DOMAIN logsTable) - Cardinality(DOMAIN atStart.logs)
        /\ variant = "enhanced" =>
              totalSwaps = Cardinality(DOMAIN swapTable)
                              - Cardinality(DOMAIN atStart.swaps)

\* --------------------------------------------------- scans of two contracts
\* The process is started with --address a and calls scanLogs for it.  The
\* other contract is scanned incrementally, once a scan has stored a
\* checkpoint.
InvokedFor(a, inc) ==
    /\ a = OtherContract => (inc /\ HasCheckpoint(meta))
    /\ address' = a
    /\ UNCHANGED <<cliVars, covered, otherRuns, requested>>

\* getLogs returns for the window [currentBlock, endBlock] of the scanned
\* contract.
RequestRecorded ==
    /\ requested' = requested \cup {<<address, b>> : b \in currentBlock..endBlock}
    /\ UNCHANGED <<cliVars, covered, otherRuns, address>>

\* Scans of either contract on one database, all of whose calls and inserts
\* succeed, on a chain whose head does not decrease.
NextAddr ==
    \/ \E a \in Addresses, inc \in BOOLEAN : StartScan(inc) /\ InvokedFor(a, inc)
    \/ /\ GetLogsReturns
       /\ RequestRecorded
    \/ /\ \E i \in DOMAIN logData : BasicCallback(i, TRUE)
       /\ UNCHANGED auxVars
    \/ /\ \E i \in DOMAIN logData : EnhancedCallback(i, "ok")
       /\ UNCHANGED auxVars
    \/ ChainAdvances /\ UNCHANGED auxVars

SpecAddr == Init /\ [][NextAddr]_vars

\* The transactions of the other contract in blocks 0..n.
OtherTxs(n) ==
    {GetLogsAt(OtherContract, 0, n)[i].transactionHash :
        i \in DOMAIN GetLogsAt(OtherContract, 0, n)}

\* C33: the checkpoint is one key for all contracts.  An incremental scan
\* that finds lastScannedBlock = N starts at N + 1 whichever contract it is
\* called for and whichever contract the checkpoint was written for, and all
\* its windows lie above N.  So a contract that is scanned incrementally after
\* another contract's scan is never asked for block 0, and while its
\* requests all lie in the current scan none of its transactions of the
\* blocks 0..N is stored.
C33_CheckpointSharedAcrossAddresses ==
    /\ (Resolved /\ incremental /\ HasCheckpoint(atStart.meta)) =>
          /\ startBlock = BigInt(Checkpoint(atStart.meta)) + 1
          /\ \A i \in DOMAIN windows :
                windows[i][1] > BigInt(Checkpoint(atStart.meta))
    /\ (Resolved /\ address = OtherContract) =>
          /\ incremental /\ HasCheckpoint(atStart.meta)
          /\ (\A r \in requested : r[1] = OtherContract => r[2] >= startBlock) =>
                OtherTxs(startBlock - 1) \cap DOMAIN logsTable = {}
    /\ <<OtherContract, 0>> \notin requested
    /\ OtherTxs(0) \cap DOMAIN logsTable = {}

\* After a scan of the default contract left a checkpoint N < head, an
\* incremental scan of the other contract has completed: it requested that
\* contract's logs above N only and stored rows of it.
C33_Witness ==
    /\ address = OtherContract
    /\ pc = "Done"
    /\ outcome = "complete"
    /\ incremental
    /\ startBlock = BigInt(Checkpoint(atStart.meta)) + 1
    /\ <<DEFAULT_CONTRACT, 0>> \in requested
    /\ <<OtherContract, startBlock>> \in requested
    /\ <<OtherContract, startBlock - 1>> \notin requested
    /\ OtherTxs(latestBlock) \cap DOMAIN logsTable # {}
    /\ Checkpoint(meta) = ToString(latestBlock)

\* C34: the server listens only in a process started with --serve true whose
\* scan has returned normally and whose metrics computation has succeeded,
\* in this order; a process whose scan failed never listens; while the
\* server listens the process starts no scan and writes neither rows nor the
\* checkpoint, so every request is handled with the scan over and the store
\* at rest.
C34_ServerStartsAfterSuccessfulScan ==
    /\ [](listening =>
            /\ args.serve
            /\ mainPc = "serving"
            /\ pc = "Done"
            /\ outcome \in {"complete", "uptodate"}
            /\ mainError = "none"
            /\ Count("scanLogs") = 1 /\ Count("metrics") = 1 /\ Count("listen") = 1
            /\ \A i \in Positions("scanLogs"), j \in Positions("metrics"),
                  k \in Positions("listen") : i < j /\ j < k)
    /\ []((pc = "Failed" \/ mainError # "none") => (~listening /\ Count("listen") = 0))
    /\ []((Count("listen") >= 1 \/ Len(requests) >= 1) => pc = "Done")
    /\ [][listening =>
             /\ storeVars' = storeVars
             /\ pc' = pc
             /\ scansRun' = scansRun]_vars
    /\ [][requests' # requests =>
             /\ listening
             /\ pc = "Done" /\ pc' = "Done"
             /\ storeVars' = storeVars]_vars

\* A process started with --serve true has scanned a chain with logs, stored
\* rows and the checkpoint, and then answered a GET /metrics request with 200.
C34_Witness ==
    /\ args.serve
    /\ listening
    /\ pc = "Done"
    /\ outcome = "complete"
    /\ DOMAIN logsTable # {}
    /\ Checkpoint(meta) = ToString(latestBlock)
    /\ Len(requests) >= 1
    /\ requests[Len(requests)].status = 200
    /\ mainTrace = <<"initDatabase", "scanLogs", "metrics", "listen">>

\* ------------------------------------------------- metrics of any stored rows
MaxRows == 13
MaxDays == 3

\* The senders of the stored rows: more than the topCallers query returns.
SenderNames == <<"0x01", "0x02", "0x03", "0x04", "0x05", "0x06",
                 "0x07", "0x08", "0x09", "0x0a", "0x0b", "0x0c">>

\* Among how many senders the rows are spread.
Spreads == {1, 3, 10, 11, Len(SenderNames)}

\* A logs table of n rows: the first `heavy` rows are of the first sender, the
\* others are spread over `spread` senders, and all rows over `days` UTC days.
StoredLogs(n, spread, days, heavy) ==
    [k \in 1..n |->
        [tx_hash |-> k,
         block_number |-> k,
         from_address |-> IF k <= heavy THEN SenderNames[1]
                          ELSE SenderNames[1 + (k % spread)],
         gas_used |-> ToString(21000),
         timestamp |-> 86400 * (k % days) + k]]

\* The swap_events table that goes with it: every second transaction swapped.
StoredSwaps(lt) ==
    [k \in {j \in DOMAIN lt : j % 2 = 0} |->
        [tx_hash |-> k,
         block_number |-> lt[k].block_number,
         sender |-> lt[k].from_address,
         amount_in |-> ToString(1),
         timestamp |-> lt[k].timestamp]]

\* A server that listens after its scan, on a database holding any of these
\* tables.
InitMetrics ==
    /\ head = MaxHead
    /\ epoch = 0
    /\ batchSize = MaxBatch
    /\ variant \in Variants
    /\ \E n \in 0..MaxRows, spread \in Spreads, days \in 1..MaxDays, heavy \in {0, 3} :
          /\ logsTable = StoredLogs(n, spread, days, heavy)
          /\ swapTable = (IF variant = "basic" THEN EmptyTable
                          ELSE StoredSwaps(StoredLogs(n, spread, days, heavy)))
    /\ meta = SetMeta(EmptyTable, "lastScannedBlock", ToString(head))
    /\ pc = "Done"
    /\ incremental = TRUE
    /\ latestBlock = head
    /\ startBlock = head + 1
    /\ currentBlock = head + 1
    /\ endBlock = 0
    /\ retries = MAX_RETRIES
    /\ logs = << >>
    /\ logData = << >>
    /\ totalLogs = 0
    /\ totalSwaps = 0
    /\ outcome = "uptodate"
    /\ atStart = [logs |-> logsTable, swaps |-> swapTable, meta |-> meta]
    /\ atWindow = [logs |-> logsTable, swaps |-> swapTable]
    /\ windows = << >>
    /\ attempts = 0
    /\ delays = << >>
    /\ rpcCalls = 0
    /\ metaWrites = 0
    /\ insertFailed = FALSE
    /\ enrichFailed = FALSE
    /\ scansRun = 1
    /\ faults = 0
    /\ prevScan = NoScan
    /\ mainPc = "serving"
    /\ args = [serve |-> TRUE, export |-> FALSE]
    /\ mainTrace = <<"initDatabase", "scanLogs", "metrics", "listen">>
    /\ exitCode = -1
    /\ listening = TRUE
    /\ requests = << >>
    /\ mainError = "none"
    /\ NoAux

SpecMetrics == InitMetrics /\ [][NextServe]_vars

\* The sum of the tx counts of a dailyStats result.
RECURSIVE SumTx(_)
SumTx(rows) == IF Len(rows) = 0 THEN 0 ELSE Head(rows).tx + SumTx(Tail(rows))

Senders(lt) == {lt[k].from_address : k \in DOMAIN lt}
CountOf(lt, a) == Cardinality({k \in DOMAIN lt : lt[k].from_address = a})
Days(lt) == {Day(lt[k].timestamp) : k \in DOMAIN lt}

\* C35: in every metrics response, topCallers holds at most 10 entries, the
\* smaller of 10 and the number of distinct senders, no sender twice, each
\* with the number of its rows, in non-increasing order of count, and no
\* sender left out has more rows than one listed; dailyStats holds exactly
\* one entry per UTC day that has a row, in descending day order, and its tx
\* counts sum to uniqueTxCount.
C35_TopCallersAndDailyStats ==
    \A i \in DOMAIN requests :
        requests[i].status = 200 =>
            LET m == requests[i].body[1]
                tc == m.topCallers
                ds == m.dailyStats
            IN  /\ Len(tc) <= 10
                /\ Len(tc) = (IF Cardinality(Senders(logsTable)) < 10
                              THEN Cardinality(Senders(logsTable)) ELSE 10)
                /\ \A j, k \in DOMAIN tc : j < k =>
                      /\ tc[j].addr # tc[k].addr
                      /\ tc[j].count >= tc[k].count
                /\ \A j \in DOMAIN tc :
                      /\ tc[j].addr \in Senders(logsTable)
                      /\ tc[j].count = CountOf(logsTable, tc[j].addr)
                /\ \A a \in Senders(logsTable) :
                      (\A j \in DOMAIN tc : tc[j].addr # a) =>
                         \A j \in DOMAIN tc : CountOf(logsTable, a) <= tc[j].count
                /\ Len(ds) = Cardinality(Days(logsTable))
                /\ {ds[j].day : j \in DOMAIN ds} = Days(logsTable)
                /\ \A j, k \in DOMAIN ds : j < k => ds[j].day > ds[k].day
                /\ \A j \in DOMAIN ds : ds[j].tx >= 1
                /\ SumTx(ds) = m.uniqueTxCount
                /\ m.uniqueTxCount = Cardinality(DOMAIN logsTable)

\* A response for a store with more than 10 senders of unequal counts and
\* rows on three days: topCallers has 10 entries, the first with more rows
\* than the last, and dailyStats has three.
C35_Witness ==
    /\ Cardinality(Senders(logsTable)) > 10
    /\ Cardinality(Days(logsTable)) = 3
    /\ Len(requests) >= 1
    /\ requests[1].status = 200
    /\ Len(requests[1].body[1].topCallers) = 10
    /\ requests[1].body[1].topCallers[1].count > requests[1].body[1].topCallers[10].count
    /\ Len(requests[1].body[1].dailyStats) = 3
    /\ requests[1].body[1].uniqueTxCount = MaxRows

====
